---- MODULE Spec2Model ----
(***************************************************************************)
(* A model of tf-safe: the retention engine (internal/backup/retention.go),*)
(* the snapshot engine (internal/backup/engine.go), the local and remote   *)
(* storage backends (internal/storage), the restore engine                 *)
(* (internal/restore/engine.go) and the terraform wrapper                  *)
(* (internal/terraform/wrapper.go).                                        *)
(*                                                                         *)
(* The specifications that share the module:                               *)
(*   SpecRetention   the retention engine applied to arbitrary lists       *)
(*   SpecCleanup     two cleanups in a row over a tier's listing           *)
(*   Spec            snapshots, local deletion and restore over time       *)
(*   SpecIntegrity   snapshots, tampering, retrieval and validation        *)
(*   SpecTiers       snapshots, loss of the local copy, and restore        *)
(*   SpecCatalog     the local catalog and its two reconciliations         *)
(*   SpecEncryption  snapshots under every encryption configuration        *)
(*   SpecCrypto      passphrase providers wrapping and unwrapping bytes    *)
(*   SpecWrapper     the wrapper driving the external tool and its hooks   *)
(*   SpecAtomicWrite utils.AtomicWrite step by step against a reader       *)
(*   SpecRemote      the remote backend, one remote call per step          *)
(***************************************************************************)
EXTENDS Integers, Sequences, FiniteSets, TLC

VARIABLES
    \* ---- retention engine (SpecRetention) ----
    backups,          \* the list handed to applyRetentionPolicy
    retentionCount,   \* config LocalCount / RemoteCount of the last run
    maxAgeDays,       \* config MaxAgeDays of the last run
    toDelete,         \* the deletion list the last run returned
    rphase,           \* "input" while the list is built, "done" after a run,
                      \* "again" after a cleanup and a second run
    firstDeleted,     \* the deletion list of the run before the last
    \* ---- terraform wrapper (SpecWrapper) ----
    hooks,            \* Wrapper.hooks: the number of registered hooks
    wpc,              \* where ExecuteWithBackup stands
    hookIdx,          \* the hook the running loop is at
    tfVersion,        \* the version the terraform binary reported
    preBackup,        \* the local preBackup of ExecuteWithBackup: the hook
                      \* whose record it holds, 0 for nil
    toolErr,          \* the error terraformCmd.Run() returned
    hostExit,         \* <<status>> once os.Exit(status) was called, else <<>>
    wresult,          \* what ExecuteWithBackup returned
    preCalls,         \* per hook: calls of PreExecute
    postCalls,        \* per hook: calls of PostExecute
    postArg,          \* per hook: the preBackup handed to PostExecute
    errCalls,         \* per hook: calls of OnError
    wlog,             \* the calls made, in order
    \* ---- snapshot, storage and restore engines (Spec) ----
    clock,            \* the wall clock, in ticks; MaxTicks stands for "later"
    remoteEnabled,    \* config.Remote.Enabled with a remote backend configured
    fs,               \* the files: the artifact, and the local tier's
                      \* <id>.bak, <id>.meta and index.json
    bucket,           \* the remote tier: per key, the object and its metadata
    written,          \* per tier and identifier: the payload last stored there
    tampers,          \* the stored payloads altered behind the program's back
    ops,              \* the snapshots, restores and deletions performed
    last,             \* the last operation and what it returned
    \* ---- utils.AtomicWrite against a reader (SpecAtomicWrite) ----
    awCalls,          \* the calls of AtomicWrite made so far
    awData,           \* the data argument of the running call
    awOld,            \* the target file when the running call began
    awDir,            \* the directory: per name, the inode it names (0: none)
    awInodes,         \* per inode, the bytes it holds
    awpc,             \* where AtomicWrite stands
    awResult,         \* what the last call returned
    awHist,           \* the complete contents the target has had, in order
    rdFd,             \* the inode the reader has open (0: none)
    rdBuf,            \* the bytes the reader has read from it
    rdFrom,           \* Len(awHist) when the reader opened the target
    rdLast,           \* the last completed read: what it returned, and the
                      \* contents of the target while it ran
    \* ---- the remote backend, call by call (SpecRemote) ----
    rpc,              \* the remote call the running operation is at
    rop,              \* the running operation and its arguments
    rattempt,         \* the loop variable attempt
    rfirstOk,         \* the first attempt at which the looped call succeeds
    rctx,             \* TRUE once the caller's context is cancelled
    rlog,             \* the remote calls and sleeps of the operation, in order
    rresult,          \* what the operation returned
    mpu,              \* the multipart upload as the remote end holds it
    completedParts,   \* the local completedParts of multipartUpload
    partNumber,       \* the local partNumber of multipartUpload
    offset,           \* the loop variable offset of multipartUpload
    sent,             \* the part list of the CompleteMultipartUpload request
    headIdx,          \* the listed object List is at
    \* ---- configuration ----
    encryptionProvider, \* config.Encryption.Provider
    \* ---- the passphrase provider (SpecCrypto) ----
    aesProviders,     \* the AESProvider instances constructed, in order
    aesSealed,        \* the last Encrypt: the instance, the data, the output
    aesOpened         \* the last Decrypt: the instance and what it returned

varsRetention == <<backups, retentionCount, maxAgeDays, toDelete, rphase, firstDeleted>>

varsWrapper == <<hooks, wpc, hookIdx, tfVersion, preBackup, toolErr, hostExit,
                 wresult, preCalls, postCalls, postArg, errCalls, wlog>>

varsStorage == <<clock, remoteEnabled, fs, bucket, written, tampers, ops, last>>

varsAtomic == <<awCalls, awData, awOld, awDir, awInodes, awpc, awResult, awHist,
                rdFd, rdBuf, rdFrom, rdLast>>

varsRemote == <<rpc, rop, rattempt, rfirstOk, rctx, rlog, rresult, mpu,
                completedParts, partNumber, offset, sent, headIdx>>

\* The configuration is read-only once loaded: no action changes it.
varsConfig == <<encryptionProvider>>

varsCrypto == <<aesProviders, aesSealed, aesOpened>>

vars == <<varsRetention, varsWrapper, varsStorage, varsAtomic, varsRemote, varsConfig,
          varsCrypto>>

\* What the actions of one component leave alone.
outsideRetention ==
    <<varsWrapper, varsStorage, varsAtomic, varsRemote, varsConfig, varsCrypto>>

outsideWrapper ==
    <<varsRetention, varsStorage, varsAtomic, varsRemote, varsConfig, varsCrypto>>

outsideStorage ==
    <<varsRetention, varsWrapper, varsAtomic, varsRemote, varsConfig, varsCrypto>>

outsideAtomic ==
    <<varsRetention, varsWrapper, varsStorage, varsRemote, varsConfig, varsCrypto>>

outsideRemote ==
    <<varsRetention, varsWrapper, varsStorage, varsAtomic, varsConfig, varsCrypto>>

outsideCrypto ==
    <<varsRetention, varsWrapper, varsStorage, varsAtomic, varsRemote, varsConfig>>

None == "none"

(***************************************************************************)
(* Retention engine                                                        *)
(***************************************************************************)

\* Bound of the retention model: the longest list.
MaxBackups == 5

\* Program constants.
MinimumRetentionCount_Low == 3 - 1

MinimumRetentionCount == 3

HoursPerDay == 24

\* Time is counted in hours. The retention engine reads time.Now() once.
RetentionNow == 3 * HoursPerDay

\* The max_age_days settings tried (0 disables the age policy) and the ages
\* of the snapshots the lists are built from: one hour, and both sides of
\* every max-age threshold d * 24h.
AgeDayOptions == {0, 1, 2}

\* The target counts tried: 0 (never above the floor), the floor itself and
\* every count up to one more than the longest list.
TargetCounts == {0} \cup (MinimumRetentionCount..(MaxBackups + 1))

AgeHours == {1} \cup { d * HoursPerDay + e : d \in AgeDayOptions \ {0}, e \in {0, 1} }

After(t, u) == t > u

Before(t, u) == t < u

RangeOf(s) == { s[i] : i \in 1..Len(s) }

IDsOf(s) == { s[i].ID : i \in 1..Len(s) }

\* sort.Slice(sortedBackups, Timestamp.After): newest first. The sort is not
\* stable, so every order that respects the comparison is a possible result.
RECURSIVE SortNewestFirstSet(_)
SortNewestFirstSet(S) ==
    IF S = {} THEN { <<>> }
    ELSE UNION { { <<m>> \o t : t \in SortNewestFirstSet(S \ {m}) } :
                 m \in { x \in S : \A y \in S : ~After(y.Timestamp, x.Timestamp) } }

SortOldestFirstSet_Mutant(bs) ==
    LET RECURSIVE Asc(_)
        Asc(S) ==
            IF S = {} THEN { <<>> }
            ELSE UNION { { <<m>> \o t : t \in Asc(S \ {m}) } :
                         m \in { x \in S : \A y \in S : ~Before(y.Timestamp, x.Timestamp) } }
    IN Asc(RangeOf(bs))

SortNewestFirst(bs) == SortNewestFirstSet(RangeOf(bs))

\* sort.Slice(toDelete, Timestamp.Before): oldest first, again not stable.
RECURSIVE SortOldestFirstSet(_)
SortOldestFirstSet(S) ==
    IF S = {} THEN { <<>> }
    ELSE UNION { { <<m>> \o t : t \in SortOldestFirstSet(S \ {m}) } :
                 m \in { x \in S : \A y \in S : ~Before(y.Timestamp, x.Timestamp) } }

shouldDeleteByAge_Inclusive(backup, now, d) ==
    IF d <= 0 THEN FALSE
    ELSE (now - backup.Timestamp) >= d * HoursPerDay

shouldDeleteByAge(backup, now, d) ==
    IF d <= 0 THEN FALSE
    ELSE (now - backup.Timestamp) > d * HoursPerDay

\* The count loop: for i := retentionCount; i < len(sortedBackups); i++
\* (positions are 1-based here, so the loop starts at retentionCount + 1).
RECURSIVE CountLoop(_, _, _)
CountLoop(sorted, i, marked) ==
    IF i > Len(sorted) THEN marked
    ELSE CountLoop(sorted, i + 1,
                   IF Len(sorted) - Len(marked) > MinimumRetentionCount
                   THEN Append(marked, sorted[i])
                   ELSE marked)

CountPolicy_FloorAsTarget(sorted, rc) ==
    IF Len(sorted) > MinimumRetentionCount
    THEN SubSeq(sorted, MinimumRetentionCount + 1, Len(sorted))
    ELSE <<>>

CountPolicy(sorted, rc) ==
    IF rc > MinimumRetentionCount /\ Len(sorted) > rc
    THEN CountLoop(sorted, rc + 1, <<>>)
    ELSE <<>>

\* The age loop: for _, backup := range sortedBackups.
RECURSIVE AgeLoop(_, _, _, _, _)
AgeLoop(sorted, i, marked, d, now) ==
    IF i > Len(sorted) THEN marked
    ELSE LET backup == sorted[i]
             alreadyMarked == \E k \in 1..Len(marked) : marked[k].ID = backup.ID
         IN AgeLoop(sorted, i + 1,
                    IF /\ shouldDeleteByAge(backup, now, d)
                       /\ ~alreadyMarked
                       /\ Len(sorted) - Len(marked) > MinimumRetentionCount
                    THEN Append(marked, backup)
                    ELSE marked,
                    d, now)

AgePolicy(sorted, marked, d, now) ==
    IF d > 0 THEN AgeLoop(sorted, 1, marked, d, now) ELSE marked

\* "Ensure we never delete more than we should to maintain minimum count".
EnsureMinimum(sorted, marked) ==
    IF Len(sorted) - Len(marked) < MinimumRetentionCount
    THEN LET keepCount == MinimumRetentionCount - (Len(sorted) - Len(marked))
         IN { IF keepCount > 0 /\ keepCount < Len(s)
              THEN SubSeq(s, keepCount + 1, Len(s))
              ELSE IF keepCount >= Len(s) THEN <<>> ELSE s :
              s \in SortOldestFirstSet(RangeOf(marked)) }
    ELSE { marked }

EarlyReturn_Off(n) == FALSE

EarlyReturn(n) == n <= MinimumRetentionCount

\* applyRetentionPolicy: the set of deletion lists it can return, given the
\* order sortedBackups that sort.Slice produced for the list bs.
applyRetentionPolicy(bs, sorted, rc, d, now) ==
    IF EarlyReturn(Len(bs)) THEN { <<>> }
    ELSE EnsureMinimum(sorted, AgePolicy(sorted, CountPolicy(sorted, rc), d, now))

InitRetentionVars ==
    /\ backups = <<>>
    /\ retentionCount = 0
    /\ maxAgeDays = 0
    /\ toDelete = <<>>
    /\ rphase = "input"
    /\ firstDeleted = <<>>

\* A snapshot record enters the list; identifiers are unique within a tier.
AddBackup ==
    /\ rphase = "input"
    /\ Len(backups) < MaxBackups
    /\ \E a \in AgeHours :
          backups' = Append(backups, [ID |-> Len(backups) + 1,
                                      Timestamp |-> RetentionNow - a])
    /\ toDelete' = <<>>
    /\ rphase' = "input"
    /\ UNCHANGED <<retentionCount, maxAgeDays, firstDeleted>>
    /\ UNCHANGED outsideRetention

\* ApplyLocalRetentionPolicy / ApplyRemoteRetentionPolicy under some config.
ApplyRetention ==
    /\ rphase = "input"
    /\ \E sorted \in SortNewestFirst(backups) :
       \E rc \in TargetCounts, d \in AgeDayOptions :
          /\ retentionCount' = rc
          /\ maxAgeDays' = d
          /\ \E td \in applyRetentionPolicy(backups, sorted, rc, d, RetentionNow) :
                toDelete' = td
    /\ rphase' = "done"
    /\ UNCHANGED <<backups, firstDeleted>>
    /\ UNCHANGED outsideRetention

\* LocalStorage.List / S3Storage.List hand the cleanup a listing sorted by
\* timestamp, newest first: a record enters it at the end, not newer than
\* the one before it.
ListBackup ==
    /\ rphase = "input"
    /\ Len(backups) < MaxBackups
    /\ \E a \in AgeHours :
          /\ IF backups = <<>> THEN TRUE
             ELSE RetentionNow - a <= backups[Len(backups)].Timestamp
          /\ backups' = Append(backups, [ID |-> Len(backups) + 1,
                                         Timestamp |-> RetentionNow - a])
    /\ toDelete' = <<>>
    /\ rphase' = "input"
    /\ UNCHANGED <<retentionCount, maxAgeDays, firstDeleted>>
    /\ UNCHANGED outsideRetention

AfterDelete_Failing(bs, td) == bs

\* The deletion loop of cleanupLocalBackups / cleanupRemoteBackups, every
\* Delete succeeding: the tier lists what was not deleted.
AfterDelete(bs, td) == SelectSeq(bs, LAMBDA b : b.ID \notin IDsOf(td))

\* The deletion lists applyRetentionPolicy can return for a list, over the
\* orders sort.Slice can leave it in.
RetentionResults(bs, rc, d) ==
    UNION { applyRetentionPolicy(bs, sorted, rc, d, RetentionNow) :
            sorted \in SortNewestFirst(bs) }

\* The second of two cleanups under one configuration and one clock reading:
\* the run on the survivors of the first.
SecondRun(survivors, rc, d, td) ==
    /\ backups' = survivors
    /\ firstDeleted' = td
    /\ retentionCount' = rc
    /\ maxAgeDays' = d
    /\ \E again \in RetentionResults(survivors, rc, d) : toDelete' = again

\* Two cleanups in a row: the policy is applied, what it returned is
\* deleted, and the policy is applied to the new listing.
CleanupTwice ==
    /\ rphase = "input"
    /\ \E rc \in TargetCounts, d \in AgeDayOptions :
       \E td \in RetentionResults(backups, rc, d) :
          SecondRun(AfterDelete(backups, td), rc, d, td)
    /\ rphase' = "again"
    /\ UNCHANGED outsideRetention

NextRetention == AddBackup \/ ApplyRetention

NextCleanup == ListBackup \/ CleanupTwice

(***************************************************************************)
(* Terraform wrapper                                                       *)
(***************************************************************************)

\* Bounds of the wrapper model: the hooks registered and the largest exit
\* status the external tool returns.
MaxHooks == 2
MaxExitCode == 3

HookIds == 1..MaxHooks

\* The decimal string of n, as a sequence of digits.
RECURSIVE DecimalString(_)
DecimalString(n) ==
    IF n < 10 THEN <<n>> ELSE DecimalString(n \div 10) \o <<n % 10>>

\* Go's < on strings: bytewise, a proper prefix being smaller.
StringLess(a, b) ==
    \E k \in 1..(Len(b)) :
        /\ \A j \in 1..(k - 1) : j <= Len(a) /\ a[j] = b[j]
        /\ k > Len(a) \/ (k <= Len(a) /\ a[k] < b[k])

StringGreater(a, b) == StringLess(b, a)

\* strings.Split(strings.TrimPrefix(version, "v"), "."): a version is the
\* tuple of its dot-separated components, each kept as its decimal string.
VersionParts(v) == [ i \in 1..Len(v) |-> DecimalString(v[i]) ]

MinimumVersion == <<0, 12, 0>>

\* The versions the installed binary may report.
VersionsTried ==
    { <<0, 9, 0>>, <<0, 11, 14>>, <<0, 12, 0>>, <<0, 100, 0>>, <<1, 5, 7>>, <<1, 0>> }

isVersionCompatible(version, minVersion) ==
    LET versionParts == VersionParts(version)
        minVersionParts == VersionParts(minVersion)
    IN IF Len(versionParts) < 3 \/ Len(minVersionParts) < 3 THEN FALSE
       ELSE IF StringGreater(versionParts[1], minVersionParts[1]) THEN TRUE
       ELSE IF StringLess(versionParts[1], minVersionParts[1]) THEN FALSE
       ELSE IF StringGreater(versionParts[2], minVersionParts[2]) THEN TRUE
       ELSE IF StringLess(versionParts[2], minVersionParts[2]) THEN FALSE
       ELSE ~StringLess(versionParts[3], minVersionParts[3])

\* The version query failed.
NoVersion == <<>>

\* The error of a command that has not run.
NotRun == [kind |-> "notrun"]

\* CheckTerraformBinary: found is exec.LookPath's answer, version the answer
\* of GetTerraformVersion (NoVersion when the query fails).
CheckTerraformBinary(found, version) ==
    /\ found
    /\ version # NoVersion
    /\ isVersionCompatible(version, MinimumVersion)

\* What terraformCmd.Run() can return: nil, an *exec.ExitError of a process
\* that exited with a status, an *exec.ExitError of a process ended by a
\* signal (also how a cancelled context ends it), or another error when the
\* process could not be started.
ToolErrors ==
    { [kind |-> "nil"] }
    \cup { [kind |-> "exit", code |-> n] : n \in 1..MaxExitCode }
    \cup { [kind |-> "signal"], [kind |-> "start"] }

ExitCodeOf_Fixed(err) ==
    IF err.kind = "exit" THEN 1
    ELSE IF err.kind = "signal" THEN -1
    ELSE 0

\* exitCode := 0; if err is an ExitError with a WaitStatus, its ExitStatus()
\* (-1 for a signalled process).
ExitCodeOf(err) ==
    IF err.kind = "exit" THEN err.code
    ELSE IF err.kind = "signal" THEN -1
    ELSE 0

ZeroCalls == [ h \in HookIds |-> 0 ]

InitWrapperVars ==
    /\ hooks = 0
    /\ wpc = "idle"
    /\ hookIdx = 0
    /\ tfVersion = NoVersion
    /\ preBackup = 0
    /\ toolErr = NotRun
    /\ hostExit = <<>>
    /\ wresult = None
    /\ preCalls = ZeroCalls
    /\ postCalls = ZeroCalls
    /\ postArg = [ h \in HookIds |-> 0 ]
    /\ errCalls = ZeroCalls
    /\ wlog = <<>>

\* Wrapper.AddHook
AddHook ==
    /\ wpc = "idle"
    /\ hooks < MaxHooks
    /\ hooks' = hooks + 1
    /\ UNCHANGED <<wpc, hookIdx, tfVersion, preBackup, toolErr, hostExit, wresult,
                   preCalls, postCalls, postArg, errCalls, wlog>>
    /\ UNCHANGED outsideWrapper

\* ExecuteWithBackup, up to the hook loop: the binary check and the
\* detection of the state file (a failure there is only a warning).  The
\* version is asked for only of a binary that was found.
ExecuteStart ==
    /\ wpc = "idle"
    /\ \E found \in BOOLEAN, version \in VersionsTried \cup {NoVersion} :
          /\ found \/ version = NoVersion
          /\ tfVersion' = version
          /\ IF CheckTerraformBinary(found, version)
             THEN /\ wpc' = "pre"
                  /\ hookIdx' = 1
                  /\ wresult' = wresult
             ELSE /\ wpc' = "returned"
                  /\ hookIdx' = hookIdx
                  /\ wresult' = "binary check failed"
    /\ UNCHANGED <<hooks, preBackup, toolErr, hostExit,
                   preCalls, postCalls, postArg, errCalls, wlog>>
    /\ UNCHANGED outsideWrapper

PreHookFails_Ignored(out) == FALSE

\* if err != nil { return fmt.Errorf("pre-execution hook failed: %w", err) }
PreHookFails(out) == out = "error"

\* What a hook's PreExecute returns: (nil, nil), a backup record, or an error.
PreOutcomes == {"nil", "backup", "error"}

\* One round of the pre-execution loop. The log keeps the call and, when the
\* hook returned an error, that too.
PreHook ==
    /\ wpc = "pre"
    /\ hookIdx <= hooks
    /\ preCalls' = [preCalls EXCEPT ![hookIdx] = @ + 1]
    /\ \E out \in PreOutcomes :
          /\ wlog' = wlog \o <<(<<"pre", hookIdx>>)>>
                          \o (IF out = "error" THEN <<(<<"preerr", hookIdx>>)>> ELSE <<>>)
          /\ IF PreHookFails(out)
             THEN /\ wpc' = "returned"
                  /\ wresult' = "pre-execution hook failed"
                  /\ UNCHANGED <<hookIdx, preBackup>>
             ELSE /\ preBackup' = IF out = "backup" THEN hookIdx ELSE preBackup
                  /\ hookIdx' = hookIdx + 1
                  /\ UNCHANGED <<wpc, wresult>>
    /\ UNCHANGED <<hooks, tfVersion, toolErr, hostExit, postCalls, postArg, errCalls>>
    /\ UNCHANGED outsideWrapper

\* terraformCmd.Run() and the computation of exitCode.
RunTerraform ==
    /\ wpc = "pre"
    /\ hookIdx > hooks
    /\ \E err \in ToolErrors :
          /\ toolErr' = err
          /\ wpc' = IF err.kind = "nil" THEN "post" ELSE "onerror"
    /\ hookIdx' = 1
    /\ wlog' = Append(wlog, <<"spawn", 0>>)
    /\ UNCHANGED <<hooks, tfVersion, preBackup, hostExit, wresult,
                   preCalls, postCalls, postArg, errCalls>>
    /\ UNCHANGED outsideWrapper

\* One round of the error-hook loop; a hook's own error is only printed.
OnErrorHook ==
    /\ wpc = "onerror"
    /\ hookIdx <= hooks
    /\ errCalls' = [errCalls EXCEPT ![hookIdx] = @ + 1]
    /\ wlog' = Append(wlog, <<"onerror", hookIdx>>)
    /\ hookIdx' = hookIdx + 1
    /\ UNCHANGED <<hooks, wpc, tfVersion, preBackup, toolErr, hostExit, wresult,
                   preCalls, postCalls, postArg>>
    /\ UNCHANGED outsideWrapper

\* os.Exit(exitCode)
ExitProcess ==
    /\ wpc = "onerror"
    /\ hookIdx > hooks
    /\ hostExit' = <<ExitCodeOf(toolErr)>>
    /\ wpc' = "exited"
    /\ UNCHANGED <<hooks, hookIdx, tfVersion, preBackup, toolErr, wresult,
                   preCalls, postCalls, postArg, errCalls, wlog>>
    /\ UNCHANGED outsideWrapper

\* One round of the post-execution loop; a hook's error is only printed.
PostHook ==
    /\ wpc = "post"
    /\ hookIdx <= hooks
    /\ postCalls' = [postCalls EXCEPT ![hookIdx] = @ + 1]
    /\ postArg' = [postArg EXCEPT ![hookIdx] = preBackup]
    /\ wlog' = Append(wlog, <<"post", hookIdx>>)
    /\ hookIdx' = hookIdx + 1
    /\ UNCHANGED <<hooks, wpc, tfVersion, preBackup, toolErr, hostExit, wresult,
                   preCalls, errCalls>>
    /\ UNCHANGED outsideWrapper

\* return nil
ExecuteReturn ==
    /\ wpc = "post"
    /\ hookIdx > hooks
    /\ wresult' = "ok"
    /\ wpc' = "returned"
    /\ UNCHANGED <<hooks, hookIdx, tfVersion, preBackup, toolErr, hostExit,
                   preCalls, postCalls, postArg, errCalls, wlog>>
    /\ UNCHANGED outsideWrapper

NextWrapper ==
    \/ AddHook
    \/ ExecuteStart
    \/ PreHook
    \/ RunTerraform
    \/ OnErrorHook
    \/ ExitProcess
    \/ PostHook
    \/ ExecuteReturn

(***************************************************************************)
(* Files, the local tier and the remote tier                               *)
(***************************************************************************)

\* Bounds: the clock runs over 0..MaxTicks, at most MaxOps snapshots, restores
\* and deletions are performed, and at most MaxTampers stored payloads are
\* altered behind the program's back.  time.Now() is finer than the
\* one-second resolution of BackupIDTimeFormat: a second is TicksPerSecond
\* ticks of the clock.
MaxTicks == 3
MaxOps == 2
MaxTampers == 1
TicksPerSecond == 2

SecondOf(t) == t \div TicksPerSecond

\* "terraform.tfstate." followed by the instant formatted to the second: the
\* identifier is the second the instant falls in.
generateBackupID(timestamp) == SecondOf(timestamp)

\* The clock value MaxTicks stands for every later instant; no instant is
\* read from it.  The identifiers are those of the instants before it.
Instants == 0..(MaxTicks - 1)

Ids == { generateBackupID(t) : t \in Instants }

\* The contents the artifact takes, and the bytes an alteration leaves.
Payloads == { <<1>>, <<2>> }

Alterations == Payloads \cup { <<>> }

\* A file or object that does not exist, and one holding d.
Absent == <<>>

File(d) == <<d>>

\* A nil error; an error is the sequence of its messages, outermost first.
Nil == <<>>

Wrap(msg, err) == <<msg>> \o err

\* utils.CalculateChecksumBytes: SHA-256, taken as collision free.
CalculateChecksumBytes(data) == <<"sha256", data>>

NoChecksum == <<>>

\* Paths.
Path(kind, id) == [kind |-> kind, id |-> id]

ArtifactPath == Path("artifact", 0)

BackupPath(key) == Path("bak", key)

MetadataPath(key) == Path("meta", key)

IndexPath == Path("index", 0)

S3Path(key) == Path("s3", key)

NoPath == Path("", 0)

\* The zero value of types.BackupMetadata.
NilMetadata ==
    [ID |-> -1, Timestamp |-> 0, Size |-> 0, Checksum |-> NoChecksum,
     StorageType |-> "", Encrypted |-> FALSE, FilePath |-> NoPath]

EmptyFS ==
    [artifact |-> Absent,
     bak |-> [k \in Ids |-> Absent],
     meta |-> [k \in Ids |-> Absent],
     index |-> [k \in Ids |-> Absent]]

ReadFile(f, path) ==
    IF path.kind = "artifact" THEN f.artifact
    ELSE IF path.kind = "bak" THEN f.bak[path.id]
    ELSE IF path.kind = "meta" THEN f.meta[path.id]
    ELSE IF path.kind = "index" THEN File(f.index)
    ELSE Absent

FileExists(f, path) == ReadFile(f, path) # Absent

PutFile(f, path, content) ==
    IF path.kind = "artifact" THEN [f EXCEPT !.artifact = content]
    ELSE IF path.kind = "bak" THEN [f EXCEPT !.bak[path.id] = content]
    ELSE IF path.kind = "meta" THEN [f EXCEPT !.meta[path.id] = content]
    ELSE IF path.kind = "index" THEN [f EXCEPT !.index = content[1]]
    ELSE f

Remove_Kept(f, path) == f

\* os.Remove
Remove(f, path) ==
    IF path.kind = "index" THEN [f EXCEPT !.index = [k \in Ids |-> Absent]]
    ELSE PutFile(f, path, Absent)

\* A write that goes straight to the target: the bytes land even when the
\* write reports a failure.
AtomicWrite_InPlace(f, path, data, fails) == PutFile(f, path, File(data))

\* utils.AtomicWrite: the data goes to a temporary file that is renamed over
\* the target; when a step fails the temporary file is removed and the target
\* is as it was.
AtomicWrite(f, path, data, fails) ==
    IF fails THEN f ELSE PutFile(f, path, File(data))

\* ---- LocalStorage ----

\* The step of LocalStorage.Store that fails, if one does.
LocalFaults == {"none", "bak", "meta", "index"}

\* LocalStorage.updateIndex; a missing index.json is an empty map.
updateIndex(f, metadata, fails) ==
    AtomicWrite(f, IndexPath, [f.index EXCEPT ![metadata.ID] = File(metadata)], fails)

\* LocalStorage.removeFromIndex
removeFromIndex(f, key, fails) ==
    AtomicWrite(f, IndexPath, [f.index EXCEPT ![key] = Absent], fails)

\* LocalStorage.Store once the record is filled in.
LocalStoreOf(f, key, data, md, fault) ==
    IF fault = "bak"
    THEN [err |-> <<"failed to write backup file">>,
          fs |-> AtomicWrite(f, BackupPath(key), data, TRUE), metadata |-> md]
    ELSE IF fault = "meta"
    THEN [err |-> <<"failed to write metadata file">>,
          fs |-> Remove(AtomicWrite(PutFile(f, BackupPath(key), File(data)),
                                    MetadataPath(key), md, TRUE),
                        BackupPath(key)),
          metadata |-> md]
    ELSE [err |-> Nil,
          fs |-> updateIndex(AtomicWrite(AtomicWrite(f, BackupPath(key), data, FALSE),
                                         MetadataPath(key), md, FALSE),
                             md, fault = "index"),
          metadata |-> md]

\* LocalStorage.Store: the error, the files afterwards, and the record as the
\* call left it (the caller's record is updated in place).
LocalStore(f, key, data, metadata, fault) ==
    LocalStoreOf(f, key, data,
        [metadata EXCEPT
            !.Checksum = IF @ = NoChecksum THEN CalculateChecksumBytes(data) ELSE @,
            !.FilePath = BackupPath(key),
            !.Size = Len(data),
            !.StorageType = "local"],
        fault)

\* LocalStorage.Retrieve
LocalRetrieve(f, key) ==
    IF ~FileExists(f, BackupPath(key))
    THEN [err |-> <<"backup file not found">>, data |-> <<>>, metadata |-> NilMetadata]
    ELSE IF ~FileExists(f, MetadataPath(key))
    THEN [err |-> <<"failed to read metadata">>, data |-> <<>>, metadata |-> NilMetadata]
    ELSE LET data == ReadFile(f, BackupPath(key))[1]
             metadata == ReadFile(f, MetadataPath(key))[1]
         IN IF CalculateChecksumBytes(data) # metadata.Checksum
            THEN [err |-> <<"checksum mismatch">>, data |-> <<>>, metadata |-> NilMetadata]
            ELSE [err |-> Nil, data |-> data, metadata |-> metadata]

\* LocalStorage.Exists
LocalExists(f, key) == FileExists(f, BackupPath(key))

\* LocalStorage.List: the records of the .meta files of the directory.
LocalList(f) == { f.meta[k][1] : k \in { i \in Ids : f.meta[i] # Absent } }

\* LocalStorage.Delete
LocalDelete(f, key, indexFails) ==
    removeFromIndex(Remove(Remove(f, BackupPath(key)), MetadataPath(key)), key, indexFails)

\* ---- S3Storage ----

S3MaxRetries == 3

\* S3RetryDelay, in seconds.
S3RetryDelay == 1

S3MultipartThreshold == 5 * 1024 * 1024

\* How the remote end answers the calls of one operation: the first attempt
\* of a call that succeeds, 0 when every attempt fails.
Schedules == {0, 1, S3MaxRetries}

EmptyBucket == [k \in Ids |-> Absent]

\* The retry loop around one remote call: up to S3MaxRetries attempts, with
\* a sleep of (attempt + 1) * S3RetryDelay after a failed attempt that is not
\* the last.  made is the number of attempts, slept the seconds slept.
RECURSIVE SleepBefore(_)
SleepBefore(attempt) ==
    IF attempt <= 1 THEN 0 ELSE (attempt - 1) * S3RetryDelay + SleepBefore(attempt - 1)

RetryLoop(firstOk) ==
    LET made == IF firstOk = 0 THEN S3MaxRetries ELSE firstOk
    IN [ok |-> firstOk # 0, made |-> made, slept |-> SleepBefore(made)]

\* time.Format(time.RFC3339) keeps the second; time.Parse gives the instant
\* at which that second begins.
FormatRFC3339(t) == SecondOf(t)

ParseRFC3339(s) == s * TicksPerSecond

\* S3Storage.regularUpload: PutObject in the retry loop.
regularUpload(b, s3Key, data, s3Metadata, firstOk) ==
    LET r == RetryLoop(firstOk)
    IN [err |-> IF r.ok THEN Nil ELSE <<"failed to upload to S3 after 3 attempts">>,
        bucket |-> IF r.ok
                   THEN [b EXCEPT ![s3Key] = File([data |-> data, metadata |-> s3Metadata])]
                   ELSE b,
        made |-> r.made, slept |-> r.slept]

\* S3Storage.multipartUpload: CreateMultipartUpload, the parts and
\* CompleteMultipartUpload are each called once and a failure aborts the
\* upload. The part list of the completion names one part number for every
\* part, which the remote end rejects, so the upload is never completed.
multipartUpload(b, s3Key, data, s3Metadata, firstOk) ==
    [err |-> IF firstOk = 1 THEN <<"failed to complete multipart upload">>
             ELSE <<"failed to create multipart upload">>,
     bucket |-> b,
     made |-> 1, slept |-> 0]

\* S3Storage.Store
S3Store(b, key, data, metadata, firstOk) ==
    LET md == [metadata EXCEPT
                  !.Checksum = IF @ = NoChecksum THEN CalculateChecksumBytes(data) ELSE @,
                  !.Size = Len(data),
                  !.StorageType = "s3",
                  !.FilePath = S3Path(key)]
        s3Metadata == [id |-> md.ID,
                       timestamp |-> FormatRFC3339(md.Timestamp),
                       checksum |-> md.Checksum,
                       encrypted |-> md.Encrypted,
                       size |-> md.Size]
    IN IF Len(data) > S3MultipartThreshold
       THEN multipartUpload(b, key, data, s3Metadata, firstOk)
       ELSE regularUpload(b, key, data, s3Metadata, firstOk)

\* S3Storage.parseS3Metadata: the id is the key asked for; timestamp,
\* checksum and encrypted are read back; size is not.
parseS3Metadata(s3Metadata, key) ==
    [NilMetadata EXCEPT
        !.ID = key,
        !.Timestamp = ParseRFC3339(s3Metadata.timestamp),
        !.Checksum = s3Metadata.checksum,
        !.Encrypted = s3Metadata.encrypted]

\* S3Storage.Retrieve: GetObject in the retry loop (a missing key fails every
\* attempt), then the checksum comparison.
S3Retrieve(b, key, firstOk) ==
    LET r == RetryLoop(IF b[key] = Absent THEN 0 ELSE firstOk)
    IN IF ~r.ok
       THEN [err |-> <<"failed to retrieve object from S3 after 3 attempts">>,
             data |-> <<>>, metadata |-> NilMetadata, slept |-> r.slept]
       ELSE LET data == b[key][1].data
                metadata == parseS3Metadata(b[key][1].metadata, key)
            IN IF CalculateChecksumBytes(data) # metadata.Checksum
               THEN [err |-> <<"checksum mismatch">>, data |-> <<>>,
                     metadata |-> NilMetadata, slept |-> r.slept]
               ELSE [err |-> Nil, data |-> data, metadata |-> metadata, slept |-> r.slept]

\* ---- backup.Engine ----

SnapshotError_Strict(localErr, remoteErr) ==
    IF localErr # Nil THEN localErr ELSE remoteErr

\* What CreateBackup returns for the outcomes of the two stores: a local
\* failure fails the operation, a remote failure is only logged.
SnapshotError(localErr, remoteErr) ==
    IF localErr # Nil THEN Wrap("failed to store backup locally", localErr) ELSE Nil

\* The record CreateBackup makes for the state file it read.
NewBackupMetadata(stateFilePath, stateData, now) ==
    [ID |-> generateBackupID(now), Timestamp |-> now, Size |-> Len(stateData),
     Checksum |-> CalculateChecksumBytes(stateData), StorageType |-> "local",
     Encrypted |-> FALSE, FilePath |-> stateFilePath]

\* CreateBackup after both stores: l is what LocalStorage.Store returned, r
\* what S3Storage.Store returned.
CreateBackupBoth(l, r) ==
    [err |-> SnapshotError(l.err, r.err), metadata |-> l.metadata,
     fs |-> l.fs, bucket |-> r.bucket, remoteErr |-> r.err, slept |-> r.slept]

\* CreateBackup from the local store on: the remote store is handed a copy
\* of the record as LocalStorage.Store left it.
CreateBackupStored(b, remote, stateData, firstOk, l) ==
    IF l.err # Nil
    THEN [err |-> SnapshotError(l.err, Nil), metadata |-> NilMetadata,
          fs |-> l.fs, bucket |-> b, remoteErr |-> Nil, slept |-> 0]
    ELSE IF ~remote
    THEN [err |-> SnapshotError(l.err, Nil), metadata |-> l.metadata,
          fs |-> l.fs, bucket |-> b, remoteErr |-> Nil, slept |-> 0]
    ELSE CreateBackupBoth(l, S3Store(b, l.metadata.ID, stateData, l.metadata, firstOk))

\* CreateBackup once the state file was read.
CreateBackupOf(f, b, remote, stateFilePath, stateData, now, fault, firstOk) ==
    CreateBackupStored(b, remote, stateData, firstOk,
        LocalStore(f, generateBackupID(now), stateData,
                   NewBackupMetadata(stateFilePath, stateData, now), fault))

\* Engine.CreateBackup(opts) at instant now.  remote says whether the remote
\* tier is written; fault and firstOk are the answers of the file system and
\* of the remote end.
CreateBackup(f, b, remote, stateFilePath, force, now, fault, firstOk) ==
    IF ~FileExists(f, stateFilePath) /\ ~force
    THEN [err |-> <<"state file not found">>, metadata |-> NilMetadata,
          fs |-> f, bucket |-> b, remoteErr |-> Nil, slept |-> 0]
    ELSE CreateBackupOf(f, b, remote, stateFilePath,
                        IF FileExists(f, stateFilePath)
                        THEN ReadFile(f, stateFilePath)[1] ELSE <<>>,
                        now, fault, firstOk)

\* Engine.validateBackupFromStorage, given what the tier's Retrieve returned.
validateBackupFromStorage(retrieved, storageType) ==
    IF retrieved.err # Nil
    THEN Wrap("failed to retrieve backup from " \o storageType \o " storage", retrieved.err)
    ELSE IF CalculateChecksumBytes(retrieved.data) # retrieved.metadata.Checksum
    THEN <<"corrupted in " \o storageType \o " storage: checksum mismatch">>
    ELSE IF Len(retrieved.data) # retrieved.metadata.Size
    THEN <<"corrupted in " \o storageType \o " storage: size mismatch">>
    ELSE Nil

\* ValidateBackup from the two validations: the remote one is made when the
\* local one fails and the remote tier is enabled; the error returned is the
\* local one.
ValidateBackupFrom(remote, localErr, remoteErr, remoteSlept) ==
    IF localErr = Nil
    THEN [err |-> Nil, localErr |-> Nil, remoteTried |-> FALSE,
          remoteErr |-> Nil, slept |-> 0]
    ELSE IF remote
    THEN [err |-> IF remoteErr = Nil THEN Nil
                  ELSE Wrap("backup validation failed", localErr),
          localErr |-> localErr, remoteTried |-> TRUE,
          remoteErr |-> remoteErr, slept |-> remoteSlept]
    ELSE [err |-> Wrap("backup validation failed", localErr),
          localErr |-> localErr, remoteTried |-> FALSE,
          remoteErr |-> Nil, slept |-> 0]

ValidateRemote(rr) ==
    [err |-> validateBackupFromStorage(rr, "remote"), slept |-> rr.slept]

ValidateBackupWith(remote, localErr, vr) ==
    ValidateBackupFrom(remote, localErr, vr.err, vr.slept)

\* Engine.ValidateBackup
ValidateBackup(f, b, remote, backupID, firstOk) ==
    ValidateBackupWith(remote,
        validateBackupFromStorage(LocalRetrieve(f, backupID), "local"),
        ValidateRemote(S3Retrieve(b, backupID, firstOk)))

GetBackupMetadataFrom(remote, l, r) ==
    IF l.err = Nil THEN [err |-> Nil, metadata |-> l.metadata, slept |-> 0]
    ELSE IF remote /\ r.err = Nil
    THEN [err |-> Nil, metadata |-> r.metadata, slept |-> r.slept]
    ELSE [err |-> Wrap("failed to get backup metadata", l.err),
          metadata |-> NilMetadata, slept |-> IF remote THEN r.slept ELSE 0]

\* Engine.GetBackupMetadata
GetBackupMetadata(f, b, remote, backupID, firstOk) ==
    GetBackupMetadataFrom(remote, LocalRetrieve(f, backupID),
                          S3Retrieve(b, backupID, firstOk))

\* ---- restore.Engine ----

RestoreValidateBackupFrom(exists, v) ==
    IF ~exists THEN [err |-> <<"backup not found">>, slept |-> 0]
    ELSE IF v.err # Nil
    THEN [err |-> Wrap("backup integrity validation failed", v.err), slept |-> v.slept]
    ELSE [err |-> Nil, slept |-> v.slept]

\* restore.Engine.ValidateBackup: the snapshot must exist in the local tier,
\* then the snapshot engine's validation.
RestoreValidateBackup(f, b, remote, backupID, firstOk) ==
    RestoreValidateBackupFrom(LocalExists(f, backupID),
                              ValidateBackup(f, b, remote, backupID, firstOk))

CreatePreRestoreBackupFrom(c) ==
    IF c.err # Nil
    THEN [c EXCEPT !.err = Wrap("failed to create pre-restore backup", c.err)]
    ELSE c

\* restore.Engine.CreatePreRestoreBackup
CreatePreRestoreBackup(f, b, remote, targetPath, now, fault, firstOk) ==
    IF ~FileExists(f, targetPath)
    THEN [err |-> <<"target file does not exist">>, metadata |-> NilMetadata,
          fs |-> f, bucket |-> b, remoteErr |-> Nil, slept |-> 0]
    ELSE CreatePreRestoreBackupFrom(
             CreateBackup(f, b, remote, targetPath, FALSE, now, fault, firstOk))

\* The path RollbackRestore writes: the FilePath of the checkpoint's record,
\* an empty one standing for "terraform.tfstate".
RollbackTarget(metadata) ==
    IF metadata.FilePath = NoPath THEN ArtifactPath ELSE metadata.FilePath

\* RollbackRestore from the answers to its calls: v of ValidateBackup, m of
\* GetBackupMetadata, r of LocalStorage.Retrieve.  The record's FilePath is
\* the path written; an empty one stands for "terraform.tfstate".
RollbackRestoreFrom(f, v, m, r, writeFails) ==
    IF v.err # Nil
    THEN [err |-> Wrap("rollback backup validation failed", v.err),
          fs |-> f, slept |-> v.slept]
    ELSE IF m.err # Nil
    THEN [err |-> Wrap("failed to get rollback backup metadata", m.err),
          fs |-> f, slept |-> v.slept + m.slept]
    ELSE IF r.err # Nil
    THEN [err |-> Wrap("failed to retrieve rollback backup data", r.err),
          fs |-> f, slept |-> v.slept + m.slept]
    ELSE [err |-> IF writeFails THEN <<"failed to write rollback state file">> ELSE Nil,
          fs |-> AtomicWrite(f, RollbackTarget(m.metadata), r.data, writeFails),
          slept |-> v.slept + m.slept]

\* restore.Engine.RollbackRestore
RollbackRestore(f, b, remote, backupID, firstOk, writeFails) ==
    RollbackRestoreFrom(f,
        RestoreValidateBackup(f, b, remote, backupID, firstOk),
        GetBackupMetadata(f, b, remote, backupID, firstOk),
        LocalRetrieve(f, backupID),
        writeFails)

\* What the file system and the remote end answer during one RestoreBackup.
\* The rollback is reached only after a failed write, and the write only
\* after the checkpoint's payload and record were written.
RestoreAnswers ==
    { a \in [firstOk : Schedules, fault : LocalFaults,
             writeFails : BOOLEAN, rollbackFails : BOOLEAN] :
        /\ a.rollbackFails => a.writeFails
        /\ a.fault \in {"bak", "meta"} => ~a.writeFails }

\* What RestoreBackup reports: the error returned, the files and the bucket
\* afterwards, the seconds slept, the record of the pre-restore backup
\* (NilMetadata when none was made), whether the write of the target failed,
\* and the error of the rollback.
RestoreResult(err, f, b, slept, checkpoint, writeFailed, rollbackErr) ==
    [err |-> err, fs |-> f, bucket |-> b, slept |-> slept, checkpoint |-> checkpoint,
     writeFailed |-> writeFailed, rollbackErr |-> rollbackErr]

WriteError == <<"failed to write restored state file", "write error">>

\* RestoreBackup after a failed write with a checkpoint: rb is what
\* RollbackRestore returned.
RestoreRolledBack(c, slept, rb) ==
    IF rb.err # Nil
    THEN RestoreResult(<<"restore failed and rollback failed", "restore error",
                         "write error", "rollback error">> \o rb.err,
                       rb.fs, c.bucket, slept + rb.slept, c.metadata, TRUE, rb.err)
    ELSE RestoreResult(WriteError, rb.fs, c.bucket, slept + rb.slept, c.metadata,
                       TRUE, Nil)

\* RestoreBackup from the write of the target on: w is the files after it.
RestoreWritten(remote, in, c, slept, w) ==
    IF ~in.writeFails
    THEN RestoreResult(Nil, w, c.bucket, slept, c.metadata, FALSE, Nil)
    ELSE IF c.metadata = NilMetadata
    THEN RestoreResult(WriteError, w, c.bucket, slept, NilMetadata, TRUE, Nil)
    ELSE RestoreRolledBack(c, slept,
             RollbackRestore(w, c.bucket, remote, c.metadata.ID, in.firstOk,
                             in.rollbackFails))

\* RestoreBackup from the retrieval of the snapshot on: r is what
\* LocalStorage.Retrieve returned.
RestoreRetrieved(remote, targetPath, in, c, slept, r) ==
    IF r.err # Nil
    THEN RestoreResult(Wrap("failed to retrieve backup data", r.err),
                       c.fs, c.bucket, slept, c.metadata, FALSE, Nil)
    ELSE RestoreWritten(remote, in, c, slept,
                        AtomicWrite(c.fs, targetPath, r.data, in.writeFails))

\* RestoreBackup from the pre-restore backup on: c is what
\* CreatePreRestoreBackup returned, or a nil record when it was not called.
RestoreCheckpointed(remote, backupID, targetPath, in, slept, c) ==
    IF c.err # Nil
    THEN RestoreResult(Wrap("failed to create pre-restore backup", c.err),
                       c.fs, c.bucket, slept + c.slept, NilMetadata, FALSE, Nil)
    ELSE RestoreRetrieved(remote, targetPath, in, c, slept + c.slept,
                          LocalRetrieve(c.fs, backupID))

\* RestoreBackup after the validation v, which took the clock to now.
RestoreValidated(f, b, remote, backupID, targetPath, createBackup, now, in, v) ==
    IF v.err # Nil
    THEN RestoreResult(Wrap("backup validation failed", v.err),
                       f, b, v.slept, NilMetadata, FALSE, Nil)
    ELSE RestoreCheckpointed(remote, backupID, targetPath, in, v.slept,
             IF createBackup /\ FileExists(f, targetPath)
             THEN CreatePreRestoreBackup(f, b, remote, targetPath, now,
                                         in.fault, in.firstOk)
             ELSE [err |-> Nil, metadata |-> NilMetadata, fs |-> f, bucket |-> b,
                   remoteErr |-> Nil, slept |-> 0])

\* restore.Engine.RestoreBackup, called when the clock shows clk; v is what
\* its ValidateBackup returns.
RestoreBackup(f, b, remote, backupID, targetPath, createBackup, clk, in, v) ==
    RestoreValidated(f, b, remote, backupID, targetPath, createBackup,
                     clk + v.slept * TicksPerSecond, in, v)

(***************************************************************************)
(* Snapshot, validation and restore: the operations                        *)
(***************************************************************************)

\* The clock after an operation that slept the given number of seconds.
Advance(clk, seconds) ==
    IF clk + seconds * TicksPerSecond > MaxTicks THEN MaxTicks
    ELSE clk + seconds * TicksPerSecond

\* The payload a tier stores under k, Absent when it stores none.
StoredIn(f, b, tier, k) ==
    IF tier = "local" THEN f.bak[k]
    ELSE IF b[k] = Absent THEN Absent ELSE File(b[k][1].data)

\* The payloads last stored by the program, after an operation that took the
\* files from f0 to f1 and the bucket from b0 to b1: where the operation
\* changed what a tier keeps under k, the payload it left there.
WrittenAfter(w, f0, b0, f1, b1) ==
    [local  |-> [k \in Ids |-> IF <<f1.bak[k], f1.meta[k]>> # <<f0.bak[k], f0.meta[k]>>
                               THEN StoredIn(f1, b1, "local", k) ELSE w.local[k]],
     remote |-> [k \in Ids |-> IF b1[k] # b0[k]
                               THEN StoredIn(f1, b1, "remote", k) ELSE w.remote[k]]]

InitStorageVars ==
    /\ clock = 0
    /\ remoteEnabled \in BOOLEAN
    /\ fs = EmptyFS
    /\ bucket = EmptyBucket
    /\ written = [local |-> [k \in Ids |-> Absent], remote |-> [k \in Ids |-> Absent]]
    /\ tampers = 0
    /\ ops = 0
    /\ last = [op |-> "none"]

\* Time passes.
Tick ==
    /\ clock < MaxTicks
    /\ clock' = clock + 1
    /\ UNCHANGED <<remoteEnabled, fs, bucket, written, tampers, ops, last>>
    /\ UNCHANGED outsideStorage

\* The external tool (or its user) rewrites or removes the artifact.
WriteArtifact ==
    /\ \E content \in {Absent} \cup { File(p) : p \in Payloads } :
          /\ content # fs.artifact
          /\ fs' = [fs EXCEPT !.artifact = content]
    /\ last' = [op |-> "write"]
    /\ UNCHANGED <<clock, remoteEnabled, bucket, written, tampers, ops>>
    /\ UNCHANGED outsideStorage

\* The state after an operation that left the files f and the bucket b and
\* slept the given seconds.
Outcome(f, b, slept) ==
    /\ fs' = f
    /\ bucket' = b
    /\ clock' = Advance(clock, slept)
    /\ written' = WrittenAfter(written, fs, bucket, f, b)

SnapshotDone(fault, res) ==
    /\ Outcome(res.fs, res.bucket, res.slept)
    /\ last' = [op |-> "snapshot", id |-> generateBackupID(clock), err |-> res.err,
                metadata |-> res.metadata, remoteErr |-> res.remoteErr,
                fault |-> fault]

\* Engine.CreateBackup of the artifact.
Snapshot ==
    /\ clock < MaxTicks
    /\ ops < MaxOps
    /\ ops' = ops + 1
    /\ \E force \in BOOLEAN, fault \in LocalFaults, firstOk \in Schedules :
          /\ remoteEnabled \/ firstOk = 1
          /\ SnapshotDone(fault, CreateBackup(fs, bucket, remoteEnabled, ArtifactPath,
                                              force, clock, fault, firstOk))
    /\ UNCHANGED <<remoteEnabled, tampers>>
    /\ UNCHANGED outsideStorage

\* The bytes of a stored payload are altered behind the program's back.
TamperLocal ==
    /\ tampers < MaxTampers
    /\ \E k \in Ids, d \in Alterations :
          /\ fs.bak[k] # Absent
          /\ fs.bak[k] # File(d)
          /\ fs' = [fs EXCEPT !.bak[k] = File(d)]
    /\ tampers' = tampers + 1
    /\ last' = [op |-> "tamper"]
    /\ UNCHANGED <<clock, remoteEnabled, bucket, written, ops>>
    /\ UNCHANGED outsideStorage

TamperRemote ==
    /\ tampers < MaxTampers
    /\ \E k \in Ids, d \in Alterations :
          /\ bucket[k] # Absent
          /\ bucket[k][1].data # d
          /\ bucket' = [bucket EXCEPT ![k] = File([@[1] EXCEPT !.data = d])]
    /\ tampers' = tampers + 1
    /\ last' = [op |-> "tamper"]
    /\ UNCHANGED <<clock, remoteEnabled, fs, written, ops>>
    /\ UNCHANGED outsideStorage

\* The local tier loses a snapshot behind the program's back: its files are
\* gone, as on another machine or after the loss of the backup directory.
LoseLocal ==
    /\ tampers < MaxTampers
    /\ \E k \in Ids :
          /\ fs.bak[k] # Absent
          /\ fs' = [fs EXCEPT !.bak[k] = Absent, !.meta[k] = Absent, !.index[k] = Absent]
    /\ tampers' = tampers + 1
    /\ last' = [op |-> "tamper"]
    /\ UNCHANGED <<clock, remoteEnabled, bucket, written, ops>>
    /\ UNCHANGED outsideStorage

RetrieveDone(tier, k, answered, r, slept) ==
    /\ last' = [op |-> "retrieve", tier |-> tier, id |-> k, err |-> r.err,
                data |-> r.data, answered |-> answered]
    /\ clock' = Advance(clock, slept)

\* LocalStorage.Retrieve
RetrieveLocal ==
    /\ \E k \in Ids : RetrieveDone("local", k, TRUE, LocalRetrieve(fs, k), 0)
    /\ UNCHANGED <<remoteEnabled, fs, bucket, written, tampers, ops>>
    /\ UNCHANGED outsideStorage

S3RetrieveDone(k, answered, r) == RetrieveDone("remote", k, answered, r, r.slept)

\* S3Storage.Retrieve
RetrieveRemote ==
    /\ remoteEnabled
    /\ \E k \in Ids, firstOk \in Schedules :
          S3RetrieveDone(k, firstOk # 0, S3Retrieve(bucket, k, firstOk))
    /\ UNCHANGED <<remoteEnabled, fs, bucket, written, tampers, ops>>
    /\ UNCHANGED outsideStorage

ValidateDone(k, answered, v) ==
    /\ last' = [op |-> "validate", id |-> k, err |-> v.err,
                localErr |-> v.localErr, remoteTried |-> v.remoteTried,
                remoteErr |-> v.remoteErr, answered |-> answered]
    /\ clock' = Advance(clock, v.slept)

\* Engine.ValidateBackup
Validate ==
    /\ \E k \in Ids, firstOk \in Schedules :
          /\ remoteEnabled \/ firstOk = 1
          /\ ValidateDone(k, firstOk # 0,
                          ValidateBackup(fs, bucket, remoteEnabled, k, firstOk))
    /\ UNCHANGED <<remoteEnabled, fs, bucket, written, tampers, ops>>
    /\ UNCHANGED outsideStorage

\* LocalStorage.Delete
DeleteLocal ==
    /\ ops < MaxOps
    /\ ops' = ops + 1
    /\ \E k \in Ids, indexFails \in BOOLEAN :
          /\ fs.bak[k] # Absent \/ fs.meta[k] # Absent \/ fs.index[k] # Absent
          /\ Outcome(LocalDelete(fs, k, indexFails), bucket, 0)
          /\ last' = [op |-> "delete", id |-> k]
    /\ UNCHANGED <<remoteEnabled, tampers>>
    /\ UNCHANGED outsideStorage

RestoreDone(k, createBackup, in, res) ==
    /\ Outcome(res.fs, res.bucket, res.slept)
    /\ last' = [op |-> "restore", id |-> k, createBackup |-> createBackup,
                err |-> res.err, checkpoint |-> res.checkpoint,
                writeFailed |-> res.writeFailed, rollbackErr |-> res.rollbackErr,
                remoteAnswers |-> in.firstOk # 0]

\* The pre-restore backup reads the clock after the validation.
RestoreStarted(k, createBackup, in, v) ==
    /\ (v.err = Nil /\ createBackup /\ FileExists(fs, ArtifactPath))
          => clock + v.slept * TicksPerSecond < MaxTicks
    /\ RestoreDone(k, createBackup, in,
                   RestoreBackup(fs, bucket, remoteEnabled, k, ArtifactPath,
                                 createBackup, clock, in, v))

\* restore.Engine.RestoreBackup onto the artifact.
Restore ==
    /\ ops < MaxOps
    /\ ops' = ops + 1
    /\ \E k \in Ids, createBackup \in BOOLEAN, in \in RestoreAnswers :
          /\ remoteEnabled \/ in.firstOk = 1
          /\ createBackup \/ (in.fault = "none" /\ ~in.rollbackFails)
          /\ RestoreStarted(k, createBackup, in,
                 RestoreValidateBackup(fs, bucket, remoteEnabled, k, in.firstOk))
    /\ UNCHANGED <<remoteEnabled, tampers>>
    /\ UNCHANGED outsideStorage

\* Snapshots and restores over time.
Next ==
    \/ Tick
    \/ WriteArtifact
    \/ Snapshot
    \/ DeleteLocal
    \/ Restore

\* ---- backup.MetadataManager ----

\* The identifiers whose payload file is in the backup directory.
PayloadIds(f) == { k \in Ids : FileExists(f, BackupPath(k)) }

\* The identifiers the catalog has an entry for.
IndexedIds(f) == { k \in Ids : f.index[k] # Absent }

\* MetadataManager.SaveIndex
SaveIndex(f, index, fails) == AtomicWrite(f, IndexPath, index, fails)

ValidateIndex_ReportOnly(f, saveFails) == [err |-> Nil, fs |-> f]

\* MetadataManager.ValidateIndex: the entries whose payload file is missing
\* are deleted and the index saved; payload files without an entry are only
\* reported.
ValidateIndex(f, saveFails) ==
    LET orphanedEntries == IndexedIds(f) \ PayloadIds(f)
    IN IF orphanedEntries = {} THEN [err |-> Nil, fs |-> f]
       ELSE IF saveFails
       THEN [err |-> <<"failed to save cleaned index">>, fs |-> f]
       ELSE [err |-> Nil,
             fs |-> SaveIndex(f, [k \in Ids |-> IF k \in orphanedEntries THEN Absent
                                                ELSE f.index[k]], FALSE)]

\* The record RebuildIndex generates from a payload file: its size, its
\* modification time and the fingerprint of its bytes.
GeneratedMetadata(k, data, modTime) ==
    [ID |-> k, Timestamp |-> modTime, Size |-> Len(data),
     Checksum |-> CalculateChecksumBytes(data), StorageType |-> "local",
     Encrypted |-> FALSE, FilePath |-> BackupPath(k)]

\* The entry RebuildIndex makes for the payload file of k: the record of
\* <k>.meta when that file is there and can be read and parsed, else the
\* generated one.
RebuiltEntry(f, k, unreadable, modTime) ==
    IF FileExists(f, MetadataPath(k)) /\ k \notin unreadable
    THEN ReadFile(f, MetadataPath(k))[1]
    ELSE GeneratedMetadata(k, ReadFile(f, BackupPath(k))[1], modTime)

\* MetadataManager.RebuildIndex: a new index with one entry per payload file
\* of the directory, saved over the old one.  unreadable is the set of .meta
\* files that cannot be read or parsed, modTimes the modification times the
\* file system reports.
RebuildIndex(f, unreadable, modTimes, saveFails) ==
    IF saveFails THEN [err |-> <<"failed to save rebuilt index">>, fs |-> f]
    ELSE [err |-> Nil,
          fs |-> SaveIndex(f, [k \in Ids |->
                                 IF k \in PayloadIds(f)
                                 THEN File(RebuiltEntry(f, k, unreadable, modTimes[k]))
                                 ELSE Absent], FALSE)]

\* A payload file or a metadata file is lost behind the program's back.
LoseFile ==
    /\ tampers < MaxTampers
    /\ \E k \in Ids, kind \in {"bak", "meta"} :
          /\ FileExists(fs, Path(kind, k))
          /\ fs' = Remove(fs, Path(kind, k))
    /\ tampers' = tampers + 1
    /\ last' = [op |-> "tamper"]
    /\ UNCHANGED <<clock, remoteEnabled, bucket, written, ops>>
    /\ UNCHANGED outsideStorage

\* MetadataManager.ValidateIndex, one of the operations counted.
ValidateIndexStep ==
    /\ \E saveFails \in BOOLEAN :
          /\ fs' = ValidateIndex(fs, saveFails).fs
          /\ last' = [op |-> "validateIndex", err |-> ValidateIndex(fs, saveFails).err]
    /\ ops < MaxOps
    /\ ops' = ops + 1
    /\ UNCHANGED <<clock, remoteEnabled, bucket, written, tampers>>
    /\ UNCHANGED outsideStorage

\* The payload files whose metadata file is there.
WithMetadata(f) == { k \in PayloadIds(f) : FileExists(f, MetadataPath(k)) }

\* The modification times the file system reports for the payload files a
\* record is generated from; those of the other files are not asked for.
ModTimes(generated) ==
    { [k \in Ids |-> IF k \in generated THEN mt[k] ELSE 0] :
        mt \in [generated -> 0..clock] }

RebuildIndexDone(res) ==
    /\ fs' = res.fs
    /\ last' = [op |-> "rebuildIndex", err |-> res.err]

\* MetadataManager.RebuildIndex, one of the operations counted; the metadata
\* files that cannot be read and the modification times are the environment's.
RebuildIndexStep ==
    /\ \E unreadable \in SUBSET WithMetadata(fs), saveFails \in BOOLEAN :
       \E modTimes \in ModTimes(PayloadIds(fs) \ (WithMetadata(fs) \ unreadable)) :
          RebuildIndexDone(RebuildIndex(fs, unreadable, modTimes, saveFails))
    /\ ops < MaxOps
    /\ ops' = ops + 1
    /\ UNCHANGED <<clock, remoteEnabled, bucket, written, tampers>>
    /\ UNCHANGED outsideStorage

\* Stores and deletions, the loss of files, and the two reconciliations.
NextCatalog ==
    \/ Tick
    \/ WriteArtifact
    \/ Snapshot
    \/ DeleteLocal
    \/ LoseFile
    \/ ValidateIndexStep
    \/ RebuildIndexStep

\* Snapshots of the artifact as it changes.
NextEncryption ==
    \/ WriteArtifact
    \/ Snapshot

\* Snapshots, the loss or alteration of the local copy, and restores.
NextTiers ==
    \/ WriteArtifact
    \/ Snapshot
    \/ TamperLocal
    \/ LoseLocal
    \/ Restore

\* Snapshots, alterations of the stored bytes, and the reads that check them.
NextIntegrity ==
    \/ WriteArtifact
    \/ Snapshot
    \/ TamperLocal
    \/ TamperRemote
    \/ RetrieveLocal
    \/ RetrieveRemote
    \/ Validate

(***************************************************************************)
(* utils.AtomicWrite, step by step, against a reader of the target         *)
(***************************************************************************)

\* Bounds: the longest data written and the calls of AtomicWrite made.
MaxFileLen == 2
MaxWrites == 2

Bytes == {1, 2}

\* The data arguments: the non-empty byte strings up to MaxFileLen.
FileData == UNION { [1..n -> Bytes] : n \in 1..MaxFileLen }

TargetName == "target"

TempName_Target(path) == path

\* os.CreateTemp(filepath.Dir(path), ".tmp-"+filepath.Base(path)): a new
\* name in the directory of the target.
TempName(path) == "temp"

FileNames == {TargetName, "temp"}

\* Every call creates a file of its own.
Inodes == 1..MaxWrites

\* What a name of the directory holds.
ContentOf(dir, inodes, name) ==
    IF dir[name] = 0 THEN Absent ELSE File(inodes[dir[name]])

NoRead == [bytes |-> Absent, during |-> {}]

InitAtomicVars ==
    /\ awCalls = 0
    /\ awData = <<>>
    /\ awOld = Absent
    /\ awDir = [n \in FileNames |-> 0]
    /\ awInodes = [i \in Inodes |-> <<>>]
    /\ awpc = "idle"
    /\ awResult = Nil
    /\ awHist = <<Absent>>
    /\ rdFd = 0
    /\ rdBuf = <<>>
    /\ rdFrom = 0
    /\ rdLast = NoRead

\* return err, after the deferred function has removed the temporary file.
AwFail(msg) ==
    /\ awResult' = <<msg>>
    /\ awpc' = "idle"
    /\ awDir' = [awDir EXCEPT ![TempName(TargetName)] = 0]

\* AtomicWrite(path, data, perm) is called.
AwCall ==
    /\ awpc = "idle"
    /\ awCalls < MaxWrites
    /\ \E data \in FileData : awData' = data
    /\ awCalls' = awCalls + 1
    /\ awOld' = ContentOf(awDir, awInodes, TargetName)
    /\ awResult' = Nil
    /\ awpc' = "ensuredir"
    /\ UNCHANGED <<awDir, awInodes, awHist, rdFd, rdBuf, rdFrom, rdLast>>
    /\ UNCHANGED outsideAtomic

\* EnsureDir(filepath.Dir(path)); its error is returned as it is.
AwEnsureDir ==
    /\ awpc = "ensuredir"
    /\ \E ok \in BOOLEAN :
          IF ok THEN awpc' = "create" /\ awResult' = awResult
          ELSE awpc' = "idle" /\ awResult' = <<"mkdir error">>
    /\ UNCHANGED <<awCalls, awData, awOld, awDir, awInodes, awHist,
                   rdFd, rdBuf, rdFrom, rdLast>>
    /\ UNCHANGED outsideAtomic

\* os.CreateTemp: on success an empty file under the temporary name.
AwCreateTemp ==
    /\ awpc = "create"
    /\ \E ok \in BOOLEAN :
          IF ok
          THEN /\ awDir' = [awDir EXCEPT ![TempName(TargetName)] = awCalls]
               /\ awInodes' = [awInodes EXCEPT ![awCalls] = <<>>]
               /\ awpc' = "write"
               /\ awResult' = awResult
          ELSE /\ awpc' = "idle"
               /\ awResult' = <<"create error">>
               /\ UNCHANGED <<awDir, awInodes>>
    /\ UNCHANGED <<awCalls, awData, awOld, awHist, rdFd, rdBuf, rdFrom, rdLast>>
    /\ UNCHANGED outsideAtomic

\* tempFile.Write(data), a byte at a time; it can fail after any of them.
AwWrite ==
    /\ awpc = "write"
    /\ \E ok \in BOOLEAN :
          IF ok
          THEN /\ awInodes' = [awInodes EXCEPT ![awCalls] =
                                  Append(@, awData[Len(@) + 1])]
               /\ awpc' = IF Len(awInodes[awCalls]) + 1 = Len(awData)
                          THEN "close" ELSE "write"
               /\ UNCHANGED <<awDir, awResult>>
          ELSE /\ AwFail("write error")
               /\ UNCHANGED awInodes
    /\ UNCHANGED <<awCalls, awData, awOld, awHist, rdFd, rdBuf, rdFrom, rdLast>>
    /\ UNCHANGED outsideAtomic

\* tempFile.Close()
AwClose ==
    /\ awpc = "close"
    /\ \E ok \in BOOLEAN :
          IF ok THEN awpc' = "chmod" /\ UNCHANGED <<awDir, awResult>>
          ELSE AwFail("close error")
    /\ UNCHANGED <<awCalls, awData, awOld, awInodes, awHist, rdFd, rdBuf, rdFrom, rdLast>>
    /\ UNCHANGED outsideAtomic

\* os.Chmod(tempPath, perm)
AwChmod ==
    /\ awpc = "chmod"
    /\ \E ok \in BOOLEAN :
          IF ok THEN awpc' = "rename" /\ UNCHANGED <<awDir, awResult>>
          ELSE AwFail("chmod error")
    /\ UNCHANGED <<awCalls, awData, awOld, awInodes, awHist, rdFd, rdBuf, rdFrom, rdLast>>
    /\ UNCHANGED outsideAtomic

\* return os.Rename(tempPath, path): the target name is switched to the
\* temporary file in one step. The error of a failed rename is returned
\* without being assigned to err, so the deferred function leaves the
\* temporary file where it is.
AwRename ==
    /\ awpc = "rename"
    /\ \E ok \in BOOLEAN :
          IF ok
          THEN /\ awDir' = [n \in FileNames |->
                              IF n = TargetName THEN awDir[TempName(TargetName)]
                              ELSE 0]
               /\ awHist' = Append(awHist, File(awData))
               /\ awResult' = Nil
          ELSE /\ awResult' = <<"rename error">>
               /\ UNCHANGED <<awDir, awHist>>
    /\ awpc' = "idle"
    /\ UNCHANGED <<awCalls, awData, awOld, awInodes, rdFd, rdBuf, rdFrom, rdLast>>
    /\ UNCHANGED outsideAtomic

\* The process ends in the middle of a call, before the rename.
AwCrash ==
    /\ awpc \in {"ensuredir", "create", "write", "close", "chmod", "rename"}
    /\ awpc' = "crashed"
    /\ UNCHANGED <<awCalls, awData, awOld, awDir, awInodes, awResult, awHist,
                   rdFd, rdBuf, rdFrom, rdLast>>
    /\ UNCHANGED outsideAtomic

\* The contents of the target from version v on.
Since(v) == { awHist[i] : i \in v..Len(awHist) }

\* os.ReadFile(path) of a reader, first half: the open.
RdOpen ==
    /\ rdFd = 0
    /\ awCalls > 0
    /\ IF awDir[TargetName] = 0
       THEN /\ rdLast' = [bytes |-> Absent, during |-> {awHist[Len(awHist)]}]
            /\ UNCHANGED <<rdFd, rdBuf, rdFrom>>
       ELSE /\ rdFd' = awDir[TargetName]
            /\ rdBuf' = <<>>
            /\ rdFrom' = Len(awHist)
            /\ rdLast' = rdLast
    /\ UNCHANGED <<awCalls, awData, awOld, awDir, awInodes, awpc, awResult, awHist>>
    /\ UNCHANGED outsideAtomic

\* os.ReadFile(path), second half: the next byte of the open file, or the
\* end of the file, at which the read returns.
RdRead ==
    /\ rdFd # 0
    /\ IF Len(rdBuf) < Len(awInodes[rdFd])
       THEN /\ rdBuf' = Append(rdBuf, awInodes[rdFd][Len(rdBuf) + 1])
            /\ UNCHANGED <<rdFd, rdFrom, rdLast>>
       ELSE /\ rdLast' = [bytes |-> File(rdBuf), during |-> Since(rdFrom)]
            /\ rdFd' = 0
            /\ rdBuf' = <<>>
            /\ rdFrom' = 0
    /\ UNCHANGED <<awCalls, awData, awOld, awDir, awInodes, awpc, awResult, awHist>>
    /\ UNCHANGED outsideAtomic

NextAtomicWrite ==
    \/ AwCall
    \/ AwEnsureDir
    \/ AwCreateTemp
    \/ AwWrite
    \/ AwClose
    \/ AwChmod
    \/ AwRename
    \/ AwCrash
    \/ RdOpen
    \/ RdRead

(***************************************************************************)
(* The remote backend, call by call                                        *)
(***************************************************************************)

\* Bounds: the parts of the largest payload stored and the objects a listing
\* returns.
MaxParts == 3
MaxObjects == 2

\* The payload lengths tried, in bytes: around the multipart threshold and
\* around the multiples of the part size.
DataLens ==
    {0, 1, S3MultipartThreshold}
    \cup { k * S3MultipartThreshold + 1 : k \in 1..(MaxParts - 1) }
    \cup { k * S3MultipartThreshold : k \in 2..(MaxParts - 1) }

\* How the remote end answers one call: the first attempt that would
\* succeed, 0 when none does.
AttemptSchedules == 0..S3MaxRetries

\* The upload ids the remote end hands out.
UploadIds == {"upload-a", "upload-b"}

NoOp == [kind |-> "none", len |-> 0, objects |-> 0, present |-> FALSE]

\* The operations of the StorageBackend interface and their arguments.
RemoteOps ==
    { [NoOp EXCEPT !.kind = "Store", !.len = l] : l \in DataLens }
    \cup { [NoOp EXCEPT !.kind = "List", !.objects = n] : n \in 0..MaxObjects }
    \cup { [NoOp EXCEPT !.kind = "Exists", !.present = e] : e \in BOOLEAN }
    \cup { [NoOp EXCEPT !.kind = k] : k \in {"Retrieve", "Delete"} }

\* The first remote call of an operation.
FirstCall(op) ==
    CASE op.kind = "Store" ->
            IF op.len > S3MultipartThreshold THEN "CreateMultipartUpload" ELSE "PutObject"
      [] op.kind = "Retrieve" -> "GetObject"
      [] op.kind = "List" -> "ListObjectsV2"
      [] op.kind = "Delete" -> "DeleteObject"
      [] op.kind = "Exists" -> "HeadObject"

\* A call of the client: its attempt number (from 1), what it was about (a
\* part number, a listed object, an upload id), whether the context was
\* already cancelled when it was made, whether the remote end answered it,
\* and the first attempt at which it would have been answered.
CallEvent(api, attempt, item, ok, would) ==
    [ev |-> "call", api |-> api, attempt |-> attempt, item |-> <<item>>,
     cancelled |-> rctx, ok |-> ok, would |-> would, seconds |-> 0]

\* time.Sleep(delay)
SleepEvent(seconds) ==
    [ev |-> "sleep", api |-> "", attempt |-> 0, item |-> <<>>,
     cancelled |-> rctx, ok |-> TRUE, would |-> 0, seconds |-> seconds]

\* The error a call of the client returned.
RemoteErr(api, attempt) == [api |-> api, attempt |-> attempt, cancelled |-> rctx]

NoCause == [api |-> "", attempt |-> 0, cancelled |-> FALSE]

NotCalled ==
    [status |-> "none", msg |-> "", cause |-> NoCause, exists |-> FALSE, listed |-> <<>>]

Pending == [NotCalled EXCEPT !.status = "pending"]

Ok == [NotCalled EXCEPT !.status = "ok"]

\* fmt.Errorf(msg + ": %w", err)
Failed(msg, cause) == [NotCalled EXCEPT !.status = "error", !.msg = msg, !.cause = cause]

RetryDelay_Flat(attempt) == S3RetryDelay

\* delay := time.Duration(attempt+1) * S3RetryDelay
RetryDelay(attempt) == (attempt + 1) * S3RetryDelay

\* data[offset:end]
Slice(from, to) == [from |-> from, to |-> to]

NoSlice == Slice(-1, -1)

\* The ETag the remote end returns for an uploaded part: a digest of its bytes.
ETagOf(slice) == <<"etag", slice.from, slice.to>>

PartNumbers == 1..MaxParts

NoUpload ==
    [status |-> "none", id |-> "", parts |-> [n \in PartNumbers |-> NoSlice],
     object |-> <<>>]

\* &partNumber: the address of the local variable.
AddressOfPartNumber == "&partNumber"

\* Reading through a pointer when the request is serialised.
Deref(p, pn) == IF p = AddressOfPartNumber THEN pn ELSE 0

\* The remote end completes an upload when the list names, in strictly
\* ascending order, parts that were uploaded, each with its ETag.
ValidPartList(request, parts) ==
    /\ Len(request) > 0
    /\ \A i \in 1..Len(request) :
          /\ request[i].PartNumber \in DOMAIN parts
          /\ parts[request[i].PartNumber] # NoSlice
          /\ request[i].ETag = ETagOf(parts[request[i].PartNumber])
    /\ \A i \in 1..Len(request), j \in 1..Len(request) :
          i < j => request[i].PartNumber < request[j].PartNumber

InitRemoteVars ==
    /\ rpc = "idle"
    /\ rop = NoOp
    /\ rattempt = 0
    /\ rfirstOk = 0
    /\ rctx = FALSE
    /\ rlog = <<>>
    /\ rresult = NotCalled
    /\ mpu = NoUpload
    /\ completedParts = <<>>
    /\ partNumber = 1
    /\ offset = 0
    /\ sent = <<>>
    /\ headIdx = 0

\* An operation of the backend is called.
RemoteBegin ==
    /\ rpc = "idle"
    /\ \E op \in RemoteOps :
          /\ rop' = op
          /\ rpc' = FirstCall(op)
    /\ \E f \in AttemptSchedules : rfirstOk' = f
    /\ rattempt' = 0
    /\ rctx' = FALSE
    /\ rlog' = <<>>
    /\ rresult' = Pending
    /\ mpu' = NoUpload
    /\ completedParts' = <<>>
    /\ partNumber' = 1
    /\ offset' = 0
    /\ sent' = <<>>
    /\ headIdx' = 0
    /\ UNCHANGED outsideRemote

\* The caller cancels the context of the running operation.
CancelContext ==
    /\ rpc # "idle"
    /\ ~rctx
    /\ rctx' = TRUE
    /\ UNCHANGED <<rpc, rop, rattempt, rfirstOk, rlog, rresult, mpu,
                   completedParts, partNumber, offset, sent, headIdx>>
    /\ UNCHANGED outsideRemote

\* The attempt the loop is at is answered: the context is live and the
\* remote end answers this attempt.
LoopSucceeds == ~rctx /\ rfirstOk = rattempt + 1

LoopSuccessLog(api) == Append(rlog, CallEvent(api, rattempt + 1, 0, TRUE, rfirstOk))

\* A failed attempt of a looped call: sleep and go round again, or leave the
\* loop after the last attempt and return its error wrapped.
LoopFailure(api, msg) ==
    /\ rattempt' = rattempt + 1
    /\ IF rattempt < S3MaxRetries - 1
       THEN /\ rlog' = rlog \o <<CallEvent(api, rattempt + 1, 0, FALSE, rfirstOk),
                                 SleepEvent(RetryDelay(rattempt))>>
            /\ UNCHANGED <<rpc, rresult>>
       ELSE /\ rlog' = Append(rlog, CallEvent(api, rattempt + 1, 0, FALSE, rfirstOk))
            /\ rpc' = "idle"
            /\ rresult' = Failed(msg, RemoteErr(api, rattempt + 1))

\* S3Storage.regularUpload: one round of the loop around PutObject.
PutObjectAttempt ==
    /\ rpc = "PutObject"
    /\ IF LoopSucceeds
       THEN /\ rlog' = LoopSuccessLog("PutObject")
            /\ rpc' = "idle"
            /\ rresult' = Ok
            /\ UNCHANGED rattempt
       ELSE LoopFailure("PutObject", "failed to upload to S3 after 3 attempts")
    /\ UNCHANGED <<rop, rfirstOk, rctx, mpu, completedParts, partNumber, offset,
                   sent, headIdx>>
    /\ UNCHANGED outsideRemote

\* What follows a GetObject that was answered: the body is read, the
\* metadata parsed and the checksum compared.
RetrieveOutcomes ==
    {"ok", "failed to read S3 object data", "failed to parse S3 metadata",
     "checksum mismatch"}

\* S3Storage.Retrieve: one round of the loop around GetObject.
GetObjectAttempt ==
    /\ rpc = "GetObject"
    /\ IF LoopSucceeds
       THEN /\ rlog' = LoopSuccessLog("GetObject")
            /\ rpc' = "idle"
            /\ \E post \in RetrieveOutcomes :
                  rresult' = IF post = "ok" THEN Ok ELSE Failed(post, NoCause)
            /\ UNCHANGED rattempt
       ELSE LoopFailure("GetObject", "failed to retrieve object from S3 after 3 attempts")
    /\ UNCHANGED <<rop, rfirstOk, rctx, mpu, completedParts, partNumber, offset,
                   sent, headIdx>>
    /\ UNCHANGED outsideRemote

\* S3Storage.Delete: one round of the loop around DeleteObject.
DeleteObjectAttempt ==
    /\ rpc = "DeleteObject"
    /\ IF LoopSucceeds
       THEN /\ rlog' = LoopSuccessLog("DeleteObject")
            /\ rpc' = "idle"
            /\ rresult' = Ok
            /\ UNCHANGED rattempt
       ELSE LoopFailure("DeleteObject", "failed to delete S3 object after 3 attempts")
    /\ UNCHANGED <<rop, rfirstOk, rctx, mpu, completedParts, partNumber, offset,
                   sent, headIdx>>
    /\ UNCHANGED outsideRemote

\* S3Storage.Exists: one round of the loop around HeadObject. An answer is
\* either the object or a not-found error, and both end the loop.
HeadObjectAttempt ==
    /\ rpc = "HeadObject"
    /\ IF LoopSucceeds
       THEN /\ rlog' = LoopSuccessLog("HeadObject")
            /\ rpc' = "idle"
            /\ rresult' = [Ok EXCEPT !.exists = rop.present]
            /\ UNCHANGED rattempt
       ELSE LoopFailure("HeadObject", "failed to check S3 object existence after 3 attempts")
    /\ UNCHANGED <<rop, rfirstOk, rctx, mpu, completedParts, partNumber, offset,
                   sent, headIdx>>
    /\ UNCHANGED outsideRemote

\* S3Storage.List: one round of the loop around ListObjectsV2.
ListObjectsAttempt ==
    /\ rpc = "ListObjectsV2"
    /\ IF LoopSucceeds
       THEN /\ rlog' = LoopSuccessLog("ListObjectsV2")
            /\ IF rop.objects = 0
               THEN rpc' = "idle" /\ rresult' = Ok /\ headIdx' = headIdx
               ELSE rpc' = "ListHead" /\ rresult' = rresult /\ headIdx' = 1
            /\ UNCHANGED rattempt
       ELSE /\ LoopFailure("ListObjectsV2", "failed to list S3 objects after 3 attempts")
            /\ headIdx' = headIdx
    /\ UNCHANGED <<rop, rfirstOk, rctx, mpu, completedParts, partNumber, offset, sent>>
    /\ UNCHANGED outsideRemote

\* S3Storage.List: the HeadObject of one listed object, called once; when it
\* fails the object is left out of the result.
ListHeadObject ==
    /\ rpc = "ListHead"
    /\ \E f \in AttemptSchedules :
          LET ok == ~rctx /\ f = 1
              listed == IF ok THEN Append(rresult.listed, headIdx) ELSE rresult.listed
          IN /\ rlog' = Append(rlog, CallEvent("HeadObject", 1, headIdx, ok, f))
             /\ rresult' = [rresult EXCEPT
                               !.listed = listed,
                               !.status = IF headIdx = rop.objects THEN "ok" ELSE @]
    /\ headIdx' = headIdx + 1
    /\ rpc' = IF headIdx = rop.objects THEN "idle" ELSE rpc
    /\ UNCHANGED <<rop, rattempt, rfirstOk, rctx, mpu, completedParts, partNumber,
                   offset, sent>>
    /\ UNCHANGED outsideRemote

\* S3Storage.multipartUpload: CreateMultipartUpload, called once.
CreateMultipartUpload ==
    /\ rpc = "CreateMultipartUpload"
    /\ \E f \in AttemptSchedules, id \in UploadIds :
          LET ok == ~rctx /\ f = 1
          IN /\ rlog' = Append(rlog, CallEvent("CreateMultipartUpload", 1, id, ok, f))
             /\ IF ok
                THEN /\ mpu' = [NoUpload EXCEPT !.status = "open", !.id = id]
                     /\ rpc' = "UploadPart"
                     /\ rresult' = rresult
                ELSE /\ mpu' = mpu
                     /\ rpc' = "idle"
                     /\ rresult' = Failed("failed to create multipart upload",
                                          RemoteErr("CreateMultipartUpload", 1))
    /\ UNCHANGED <<rop, rattempt, rfirstOk, rctx, completedParts, partNumber, offset,
                   sent, headIdx>>
    /\ UNCHANGED outsideRemote

OnPartError_NoAbort(log, id, answered) == log

\* The error branch of UploadPart: AbortMultipartUpload is called, with the
\* context of the operation, and what it returns is dropped.
OnPartError(log, id, answered) ==
    Append(log, CallEvent("AbortMultipartUpload", 1, id, answered, 1))

\* The error branch of CompleteMultipartUpload, the same call.
OnCompleteError(log, id, answered) ==
    Append(log, CallEvent("AbortMultipartUpload", 1, id, answered, 1))

\* The remote end has dropped the upload when the abort reached it.
AfterAbort(upload, log) ==
    IF /\ log # <<>>
       /\ log[Len(log)].api = "AbortMultipartUpload"
       /\ log[Len(log)].ok
    THEN [upload EXCEPT !.status = "aborted"]
    ELSE upload

\* end := offset + partSize; if end > len(data) { end = len(data) }
PartEnd(off, len) ==
    IF off + S3MultipartThreshold > len THEN len ELSE off + S3MultipartThreshold

\* S3Storage.multipartUpload: one round of the loop over the parts.
UploadPart ==
    /\ rpc = "UploadPart"
    /\ \E f \in AttemptSchedules, abortAnswered \in BOOLEAN :
          LET ok == ~rctx /\ f = 1
              partData == Slice(offset, PartEnd(offset, rop.len))
              called == Append(rlog, CallEvent("UploadPart", 1, partNumber, ok, f))
          IN IF ok
             THEN /\ rlog' = called
                  /\ mpu' = [mpu EXCEPT !.parts[partNumber] = partData]
                  /\ completedParts' =
                        Append(completedParts,
                               [ETag |-> ETagOf(partData), PartNumber |-> AddressOfPartNumber])
                  /\ partNumber' = partNumber + 1
                  /\ offset' = offset + S3MultipartThreshold
                  /\ rpc' = IF offset + S3MultipartThreshold < rop.len
                            THEN "UploadPart" ELSE "CompleteMultipartUpload"
                  /\ rresult' = rresult
             ELSE /\ rlog' = OnPartError(called, mpu.id, ~rctx /\ abortAnswered)
                  /\ mpu' = AfterAbort(mpu, rlog')
                  /\ rpc' = "idle"
                  /\ rresult' = Failed("failed to upload part", RemoteErr("UploadPart", 1))
                  /\ UNCHANGED <<completedParts, partNumber, offset>>
    /\ UNCHANGED <<rop, rattempt, rfirstOk, rctx, sent, headIdx>>
    /\ UNCHANGED outsideRemote

\* The part list as it goes out: every PartNumber is read through its
\* pointer when the request is built.
PartList(parts, pn) ==
    [ i \in 1..Len(parts) |->
        [ETag |-> parts[i].ETag, PartNumber |-> Deref(parts[i].PartNumber, pn)] ]

\* S3Storage.multipartUpload: CompleteMultipartUpload, called once.
CompleteMultipartUpload ==
    /\ rpc = "CompleteMultipartUpload"
    /\ sent' = PartList(completedParts, partNumber)
    /\ \E f \in AttemptSchedules, abortAnswered \in BOOLEAN :
          LET valid == ValidPartList(sent', mpu.parts)
              ok == ~rctx /\ f = 1 /\ valid
              called == Append(rlog, CallEvent("CompleteMultipartUpload", 1, mpu.id, ok,
                                               IF valid THEN f ELSE 0))
          IN IF ok
             THEN /\ rlog' = called
                  /\ mpu' = [mpu EXCEPT
                                !.status = "completed",
                                !.object = [ i \in 1..Len(sent') |->
                                               mpu.parts[sent'[i].PartNumber] ]]
                  /\ rresult' = Ok
             ELSE /\ rlog' = OnCompleteError(called, mpu.id, ~rctx /\ abortAnswered)
                  /\ mpu' = AfterAbort(mpu, rlog')
                  /\ rresult' = Failed("failed to complete multipart upload",
                                       RemoteErr("CompleteMultipartUpload", 1))
    /\ rpc' = "idle"
    /\ UNCHANGED <<rop, rattempt, rfirstOk, rctx, completedParts, partNumber, offset,
                   headIdx>>
    /\ UNCHANGED outsideRemote

NextRemote ==
    \/ RemoteBegin
    \/ CancelContext
    \/ PutObjectAttempt
    \/ GetObjectAttempt
    \/ DeleteObjectAttempt
    \/ HeadObjectAttempt
    \/ ListObjectsAttempt
    \/ ListHeadObject
    \/ CreateMultipartUpload
    \/ UploadPart
    \/ CompleteMultipartUpload

(***************************************************************************)
(* Encryption providers (internal/encryption)                              *)
(***************************************************************************)

\* The values of encryption.provider that CreateFromConfig accepts.
ProviderNames == {"aes", "kms", "passphrase", "none", ""}

\* The provider of the built-in default configuration.
DefaultEncryptionProvider == "aes"

\* Factory.CreateFromConfig, the configuration carrying the passphrase or key
\* identifier its provider needs: the kind of provider it builds.
CreateFromConfig(provider) ==
    IF provider \in {"aes", "passphrase"} THEN "AES"
    ELSE IF provider = "kms" THEN "KMS"
    ELSE "NoOp"

\* The passphrases a configuration may carry, and the salts and nonces
\* rand.Reader may hand out.
Passphrases == {"alpha", "beta"}

Salts == {1, 2}

Nonces == {1, 2}

\* pbkdf2.Key(passphrase, salt, 100000, 32, sha256.New): a key determined by
\* the passphrase and the salt, distinct for distinct pairs.
Pbkdf2(passphrase, salt) == [passphrase |-> passphrase, salt |-> salt]

Keys == { Pbkdf2(p, t) : p \in Passphrases, t \in Salts }

\* gcm.Seal(nonce, nonce, data, nil): the nonce, then the data sealed and
\* authenticated under the key and the nonce.
Seal(key, nonce, data) ==
    <<nonce, [key |-> key, nonce |-> nonce, sealed |-> data]>>

NonceSize == 1

\* gcm.Open(nil, nonce, ciphertext, nil): the data when the ciphertext was
\* sealed under this key and nonce, else an authentication error.
Open(key, nonce, ciphertext) ==
    IF /\ Len(ciphertext) = 1
       /\ ciphertext[1].key = key
       /\ ciphertext[1].nonce = nonce
    THEN [err |-> Nil, data |-> ciphertext[1].sealed]
    ELSE [err |-> <<"failed to decrypt data", "message authentication failed">>,
          data |-> <<>>]

\* NewAESProvider(passphrase), salt being the one it drew, and Initialize.
NewAESProvider(passphrase, salt) ==
    [passphrase |-> passphrase, key |-> Pbkdf2(passphrase, salt)]

\* AESProvider.Encrypt, nonce being the one it drew.
AESEncrypt(a, nonce, data) == Seal(a.key, nonce, data)

\* AESProvider.Decrypt
AESDecrypt(a, encryptedData) ==
    IF Len(encryptedData) < NonceSize
    THEN [err |-> <<"encrypted data too short">>, data |-> <<>>]
    ELSE Open(a.key, encryptedData[1],
              SubSeq(encryptedData, NonceSize + 1, Len(encryptedData)))

\* The opaque CiphertextBlob of the key-management service.
CiphertextBlob(data) == <<128>> \o [i \in 1..Len(data) |-> data[i] + 128]

\* EncryptionProvider.Encrypt: the outputs a provider of the kind can return
\* for the data.
Encrypt(kind, data) ==
    IF kind = "AES" THEN { Seal(key, nonce, data) : key \in Keys, nonce \in Nonces }
    ELSE IF kind = "KMS" THEN { CiphertextBlob(data) }
    ELSE { data }

InitConfigVars == encryptionProvider \in ProviderNames

MaxProviders == 2

NoneSealed == [by |-> 0, data |-> <<>>, out |-> <<>>]

NoneOpened == [by |-> 0, err |-> Nil, data |-> <<>>]

InitCryptoVars ==
    /\ aesProviders = <<>>
    /\ aesSealed = NoneSealed
    /\ aesOpened = NoneOpened

\* Factory.CreateFromConfig under provider "aes" or "passphrase": a provider
\* is constructed from the configured passphrase, as each run of the program
\* does.
CreateAES ==
    /\ Len(aesProviders) < MaxProviders
    /\ \E passphrase \in Passphrases, salt \in Salts :
          aesProviders' = Append(aesProviders, NewAESProvider(passphrase, salt))
    /\ UNCHANGED <<aesSealed, aesOpened>>
    /\ UNCHANGED outsideCrypto

\* Encrypt on one of the instances.
EncryptStep ==
    /\ \E i \in 1..Len(aesProviders), nonce \in Nonces, data \in Payloads :
          aesSealed' = [by |-> i, data |-> data,
                        out |-> AESEncrypt(aesProviders[i], nonce, data)]
    /\ aesOpened' = NoneOpened
    /\ UNCHANGED aesProviders
    /\ UNCHANGED outsideCrypto

\* Decrypt of the last output on one of the instances.
DecryptStep ==
    /\ aesSealed # NoneSealed
    /\ \E i \in 1..Len(aesProviders) :
          aesOpened' = [by |-> i,
                        err |-> AESDecrypt(aesProviders[i], aesSealed.out).err,
                        data |-> AESDecrypt(aesProviders[i], aesSealed.out).data]
    /\ UNCHANGED <<aesProviders, aesSealed>>
    /\ UNCHANGED outsideCrypto

NextCrypto ==
    \/ CreateAES
    \/ EncryptStep
    \/ DecryptStep

(***************************************************************************)
(* Specifications                                                          *)
(***************************************************************************)

\* Everything but the configuration's encryption section, which only
\* SpecEncryption varies: the other specifications run under the default.
InitComponents ==
    InitRetentionVars /\ InitWrapperVars /\ InitStorageVars /\ InitAtomicVars
        /\ InitRemoteVars /\ InitCryptoVars

Init == InitComponents /\ encryptionProvider = DefaultEncryptionProvider

InitEncryption == InitComponents /\ InitConfigVars

SpecEncryption == InitEncryption /\ [][NextEncryption]_vars

InitCatalog == Init /\ ~remoteEnabled

SpecCatalog == InitCatalog /\ [][NextCatalog]_vars

InitCrypto == Init /\ remoteEnabled

SpecCrypto == InitCrypto /\ [][NextCrypto]_vars

InitRetention == Init /\ remoteEnabled

InitWrapper == Init /\ remoteEnabled

InitIntegrity == Init

Spec == Init /\ [][Next]_vars

SpecIntegrity == InitIntegrity /\ [][NextIntegrity]_vars

SpecTiers == Init /\ [][NextTiers]_vars

SpecRetention == InitRetention /\ [][NextRetention]_vars

SpecCleanup == InitRetention /\ [][NextCleanup]_vars

SpecWrapper == InitWrapper /\ [][NextWrapper]_vars

InitAtomicWrite == Init /\ remoteEnabled

SpecAtomicWrite == InitAtomicWrite /\ [][NextAtomicWrite]_vars

InitRemote == Init /\ remoteEnabled

SpecRemote == InitRemote /\ [][NextRemote]_vars

(***************************************************************************)
(* Retention engine: properties                                            *)
(***************************************************************************)

AgeOf(b) == RetentionNow - b.Timestamp

DeletedIDs == IDsOf(toDelete)

Survivors == { b \in RangeOf(backups) : b.ID \notin DeletedIDs }

DistinctInstants ==
    \A i, j \in 1..Len(backups) :
        i # j => backups[i].Timestamp # backups[j].Timestamp

\* The snapshots with at least k strictly newer snapshots in the list.
AllButNewest(k) ==
    { b \in RangeOf(backups) :
        Cardinality({ c \in RangeOf(backups) : After(c.Timestamp, b.Timestamp) }) >= k }

OlderThanMaxAge == { b \in RangeOf(backups) : AgeOf(b) > maxAgeDays * HoursPerDay }

\* C1: for every list and every configuration the deletion set leaves at
\* least 3 survivors whenever the list holds at least 3 snapshots, and is
\* empty whenever the list holds 3 or fewer.
C1_RetentionFloor ==
    rphase = "done" =>
        /\ RangeOf(toDelete) \subseteq RangeOf(backups)
        /\ Len(backups) >= 3 => Cardinality(Survivors) >= 3
        /\ Len(backups) <= 3 => toDelete = <<>>

\* The floor binds: snapshots older than the max age survive because
\* deleting them would leave fewer than 3.
C1_Witness ==
    /\ rphase = "done"
    /\ Len(backups) > 3
    /\ toDelete # <<>>
    /\ Cardinality(Survivors) = 3
    /\ Survivors \cap OlderThanMaxAge # {}

\* C2: with the age policy disabled, a target above 3 and n > target
\* snapshots of distinct instants in any order, the deletion set is exactly
\* the n - target oldest snapshots and the survivors the target newest.
C2_CountPolicy ==
    ( /\ rphase = "done"
      /\ maxAgeDays = 0
      /\ retentionCount > 3
      /\ Len(backups) > retentionCount
      /\ DistinctInstants )
    => /\ RangeOf(toDelete) = AllButNewest(retentionCount)
       /\ Len(toDelete) = Len(backups) - retentionCount
       /\ Cardinality(Survivors) = retentionCount
       /\ \A b \in Survivors, c \in RangeOf(toDelete) :
              After(b.Timestamp, c.Timestamp)

\* A list that is not given newest first, pruned by the count policy.
C2_Witness ==
    /\ rphase = "done"
    /\ maxAgeDays = 0
    /\ retentionCount > 3
    /\ Len(backups) > retentionCount
    /\ DistinctInstants
    /\ Before(backups[1].Timestamp, backups[2].Timestamp)
    /\ After(backups[Len(backups)].Timestamp, backups[1].Timestamp)
    /\ toDelete # <<>>

\* C3: with max_age_days = d > 0 and a target at least the length of the
\* list, if at least 3 snapshots are not older than d * 24h the deletion set
\* is exactly the set of snapshots whose age exceeds d * 24h.
C3_AgePolicy ==
    ( /\ rphase = "done"
      /\ maxAgeDays > 0
      /\ retentionCount >= Len(backups)
      /\ Cardinality(RangeOf(backups) \ OlderThanMaxAge) >= 3 )
    => RangeOf(toDelete) = OlderThanMaxAge

\* Two snapshots past the max age are deleted while one aged exactly
\* d * 24h is kept.
C3_Witness ==
    /\ rphase = "done"
    /\ maxAgeDays > 0
    /\ retentionCount >= Len(backups)
    /\ Cardinality(RangeOf(backups) \ OlderThanMaxAge) >= 3
    /\ Cardinality(RangeOf(toDelete)) = 2
    /\ \E b \in Survivors : AgeOf(b) = maxAgeDays * HoursPerDay

\* C4 as stated: for every list and every configuration whose target count
\* is greater than the number of snapshots, the deletion set is empty.
C4_Original ==
    (rphase = "done" /\ retentionCount > Len(backups)) => toDelete = <<>>

\* C4 as amended: with a target count greater than the number of snapshots
\* the count policy deletes nothing; the deletion set holds only snapshots
\* older than max_age_days * 24h, so it is empty when the age policy is
\* disabled or no snapshot is that old.
C4_NoCountDeletions ==
    (rphase = "done" /\ retentionCount > Len(backups))
    => /\ RangeOf(toDelete) \subseteq OlderThanMaxAge
       /\ maxAgeDays = 0 => toDelete = <<>>

\* More than 3 snapshots, some of them more than a day old, a larger target
\* and the age policy disabled: nothing is deleted.
C4_Witness ==
    /\ rphase = "done"
    /\ retentionCount > Len(backups)
    /\ Len(backups) > 3
    /\ maxAgeDays = 0
    /\ \E b \in RangeOf(backups) : AgeOf(b) > HoursPerDay
    /\ toDelete = <<>>

\* C27: the deletion set is a suffix of the newest-first order: no snapshot
\* is marked for deletion while a strictly older snapshot of the same tier
\* survives, and the newest snapshot of a tier is never marked for deletion.
C27_Original ==
    rphase = "done" =>
        /\ \A d \in RangeOf(toDelete), b \in Survivors :
              ~Before(b.Timestamp, d.Timestamp)
        /\ \A d \in RangeOf(toDelete) :
              \E b \in Survivors : ~Before(b.Timestamp, d.Timestamp)
        /\ backups # <<>> =>
              \E b \in Survivors :
                 \A c \in RangeOf(backups) : ~After(c.Timestamp, b.Timestamp)

\* The part of C27 that holds: with the age policy disabled the deletion
\* set is a suffix of the newest-first order.
C27_CountOnlyIsSuffix ==
    (rphase = "done" /\ maxAgeDays = 0) =>
        \A d \in RangeOf(toDelete), b \in Survivors :
            ~Before(b.Timestamp, d.Timestamp)

(***************************************************************************)
(* Snapshot, validation and restore: properties                            *)
(***************************************************************************)

\* The steps that are a snapshot() and a restore().
SnapshotStep == ops' = ops + 1 /\ last'.op = "snapshot"

RestoreStep == ops' = ops + 1 /\ last'.op = "restore"

\* The bytes CreateBackup reads from a file: none from a missing one.
BytesOf(file) == IF file = Absent THEN <<>> ELSE file[1]

Contains(err, msg) == \E i \in 1..Len(err) : err[i] = msg

EndsWith(err, cause) ==
    /\ Len(cause) <= Len(err)
    /\ SubSeq(err, Len(err) - Len(cause) + 1, Len(err)) = cause

IsCorruption(err) ==
    \/ Contains(err, "checksum mismatch")
    \/ Contains(err, "corrupted in local storage: checksum mismatch")
    \/ Contains(err, "corrupted in local storage: size mismatch")
    \/ Contains(err, "corrupted in remote storage: checksum mismatch")
    \/ Contains(err, "corrupted in remote storage: size mismatch")

\* What a read of a tier must answer, for a snapshot that was written to the
\* tier: a corruption error when the stored bytes are not the bytes written,
\* success when they are.  answered says that the tier could be reached.
ReadAnswer(tier, k, err, answered) ==
    written[tier][k] # Absent =>
        IF StoredIn(fs, bucket, tier, k) # written[tier][k]
        THEN err # Nil /\ (answered => IsCorruption(err))
        ELSE answered => err = Nil

\* C6 for retrieve(id), on both tiers.
C6_Retrieve ==
    last.op = "retrieve" =>
        /\ ReadAnswer(last.tier, last.id, last.err, last.answered)
        /\ last.err = Nil => File(last.data) = written[last.tier][last.id]

\* C6 for validate(id) against the local tier.
C6_ValidateLocal ==
    last.op = "validate" => ReadAnswer("local", last.id, last.localErr, TRUE)

\* C6 for validate(id) against the remote tier.
C6_ValidateRemote ==
    (last.op = "validate" /\ last.remoteTried) =>
        ReadAnswer("remote", last.id, last.remoteErr, last.answered)

\* C6: for every snapshot written to a tier, if the stored payload bytes are
\* changed after the write, every later retrieve(id) and validate(id) against
\* that tier fails with a corruption error and never returns the altered
\* bytes; if the stored bytes are unchanged, both succeed.
C6_Original == C6_Retrieve /\ C6_ValidateLocal /\ C6_ValidateRemote

\* C7: once snapshot() has returned a record with identifier I, the payload
\* and record retrievable under I do not change until delete(I); a second
\* snapshot() in the same UTC second never replaces them.
C7_Original ==
    [][ \A k \in Ids :
          (/\ LocalRetrieve(fs, k).err = Nil
           /\ ~(ops' = ops + 1 /\ last'.op = "delete" /\ last'.id = k))
          => LocalRetrieve(fs', k) = LocalRetrieve(fs, k) ]_vars

\* C8: if S1 holds P1 and the artifact holds P2, a restore of S1 with
\* checkpoint=true that returns success leaves the artifact equal to P1 and a
\* snapshot S2, distinct from S1, whose payload is P2, while S1 still holds
\* P1; for every delay between creating S1 and the restore.
C8_Original ==
    [][ (/\ RestoreStep
         /\ last'.createBackup
         /\ last'.err = Nil
         /\ fs.artifact # Absent
         /\ LocalRetrieve(fs, last'.id).err = Nil)
        => /\ fs'.artifact = File(LocalRetrieve(fs, last'.id).data)
           /\ last'.checkpoint # NilMetadata
           /\ last'.checkpoint.ID # last'.id
           /\ LocalRetrieve(fs', last'.checkpoint.ID).err = Nil
           /\ LocalRetrieve(fs', last'.checkpoint.ID).data = fs.artifact[1]
           /\ LocalRetrieve(fs', last'.id).err = Nil
           /\ LocalRetrieve(fs', last'.id).data = LocalRetrieve(fs, last'.id).data ]_vars

\* C9: if the atomic replace of the target fails during restore after a
\* checkpoint snapshot was created, the artifact holds its pre-restore bytes
\* when restore returns; and if the rollback fails too, the error returned
\* names the restore failure and the rollback failure.
C9_RollbackKeepsArtifact ==
    [][ (RestoreStep /\ last'.writeFailed /\ last'.checkpoint # NilMetadata) =>
            /\ fs'.artifact = fs.artifact
            /\ last'.err # Nil
            /\ last'.rollbackErr # Nil =>
                  /\ Contains(last'.err, "restore error")
                  /\ Contains(last'.err, "write error")
                  /\ Contains(last'.err, "rollback error")
                  /\ EndsWith(last'.err, last'.rollbackErr) ]_vars

\* A restore whose write failed after the checkpoint was made, and whose
\* rollback failed too.
C9_Witness ==
    /\ last.op = "restore"
    /\ last.writeFailed
    /\ last.checkpoint # NilMetadata
    /\ last.rollbackErr # Nil
    /\ fs.artifact # Absent
    /\ fs.bak[last.checkpoint.ID] = fs.artifact

\* The last operation was a snapshot() whose local store failed at the
\* write of the metadata file.
MetadataWriteFailed ==
    last.op = "snapshot" /\ Contains(last.err, "failed to write metadata file")

C26_Original ==
    [][ /\ (SnapshotStep /\ last'.err = Nil) =>
              /\ last'.metadata.FilePath = ArtifactPath
              /\ LocalRetrieve(fs', last'.id).metadata.FilePath = ArtifactPath
        /\ (RestoreStep /\ last'.writeFailed /\ last'.checkpoint # NilMetadata
            /\ last'.rollbackErr = Nil) =>
              /\ RollbackTarget(LocalRetrieve(fs', last'.checkpoint.ID).metadata)
                    = ArtifactPath
              /\ fs'.bak = fs.bak \/ last'.checkpoint.FilePath.kind # "bak" ]_vars

\* What the code does instead: the record of a stored snapshot names the
\* payload file of the local tier, and a rollback writes that file.
C26_RecordNamesPayloadFile ==
    [][ /\ (SnapshotStep /\ last'.err = Nil) =>
              last'.metadata.FilePath = BackupPath(last'.id)
        /\ (RestoreStep /\ last'.writeFailed /\ last'.checkpoint # NilMetadata
            /\ last'.rollbackErr = Nil) =>
              RollbackTarget(LocalRetrieve(fs', last'.checkpoint.ID).metadata)
                 = BackupPath(last'.checkpoint.ID) ]_vars

\* C28: after any sequence of local store and delete calls, including calls
\* that fail part-way through and stores that reuse an existing identifier,
\* every record returned by the local list() has its payload present:
\* exists(id) is true and retrieve(id) does not fail because the payload file
\* is missing.
C28_Original ==
    \A record \in LocalList(fs) :
        /\ LocalExists(fs, record.ID)
        /\ ~Contains(LocalRetrieve(fs, record.ID).err, "backup file not found")

\* The last operation was a reconciliation that returned nil.
Validated == last.op = "validateIndex" /\ last.err = Nil

Rebuilt == last.op = "rebuildIndex" /\ last.err = Nil

\* The entry of k is the record of its metadata file.
EntryFromMetadata(f, k) == f.meta[k] # Absent /\ f.index[k] = f.meta[k]

\* The entry of k is made of the size, a modification time and the
\* fingerprint of the stored bytes.
EntryFromPayload(f, k) ==
    \E modTime \in 0..MaxTicks :
        f.index[k] = File(GeneratedMetadata(k, f.bak[k][1], modTime))

C24_WitnessDropped ==
    /\ Validated
    /\ \E k \in Ids : fs.meta[k] # Absent /\ fs.bak[k] = Absent /\ fs.index[k] = Absent

(***************************************************************************)
(* Terraform wrapper: properties                                           *)
(***************************************************************************)

ToolExitedNonZero == toolErr.kind = "exit" /\ toolErr.code # 0

Registered == 1..hooks

\* C10: when the external tool exits with non-zero status N, the wrapper
\* invokes every registered hook's on_error exactly once, invokes no post
\* hook, and terminates the host process with exit status N (it does not
\* return to its caller).
C10_ExitPropagation ==
    ToolExitedNonZero =>
        /\ wpc \in {"onerror", "exited"}
        /\ wresult = None
        /\ \A h \in Registered : postCalls[h] = 0 /\ errCalls[h] <= 1
        /\ wpc = "exited" =>
              /\ hostExit = <<toolErr.code>>
              /\ \A h \in Registered : errCalls[h] = 1

\* The tool exited with status 2 under two hooks, one of which had produced
\* a pre-record, and the process has exited.
C10_Witness ==
    /\ wpc = "exited"
    /\ hooks = 2
    /\ toolErr = [kind |-> "exit", code |-> 2]
    /\ preBackup # 0
    /\ hostExit = <<2>>

\* The positions of the log that hold an event of the given kind.
LogAt(kind) == { i \in 1..Len(wlog) : wlog[i][1] = kind }

\* C11: pre hooks run in registration order and all of them have completed
\* when the external tool is spawned; when a pre hook returns an error the
\* wrapper returns an error, no later pre hook runs and the tool is never
\* spawned.
C11_PreHooksBeforeTool ==
    /\ \A i \in LogAt("pre"), j \in LogAt("pre") : i < j => wlog[i][2] < wlog[j][2]
    /\ \A s \in LogAt("spawn") :
          /\ \A h \in Registered : \E i \in LogAt("pre") : i < s /\ wlog[i][2] = h
          /\ \A i \in LogAt("pre") : i < s
          /\ \A h \in Registered : preCalls[h] = 1
    /\ \A e \in LogAt("preerr") :
          /\ wpc = "returned"
          /\ wresult = "pre-execution hook failed"
          /\ LogAt("spawn") = {}
          /\ toolErr = NotRun
          /\ \A i \in LogAt("pre") : i < e
          /\ \A h \in HookIds : h > wlog[e][2] => preCalls[h] = 0

\* Under two hooks the first succeeded with a record and the second returned
\* an error.
C11_Witness ==
    /\ hooks = 2
    /\ wlog = << <<"pre", 1>>, <<"pre", 2>>, <<"preerr", 2>> >>
    /\ preBackup = 1
    /\ wresult = "pre-execution hook failed"

\* Numeric comparison of two three-component versions: major, then minor,
\* then patch.
VersionAtLeast(v, m) ==
    \/ v[1] > m[1]
    \/ v[1] = m[1] /\ v[2] > m[2]
    \/ v[1] = m[1] /\ v[2] = m[2] /\ v[3] >= m[3]

\* ExecuteWithBackup went past the binary check with a binary that reported
\* a three-component version.
VersionChecked == wpc # "idle" /\ tfVersion # NoVersion /\ Len(tfVersion) = 3

\* C22: the wrapper accepts the external tool exactly when its version is at
\* least 0.12.0 under numeric comparison of the three components; every lower
\* version is rejected as fatal before any hook runs and before the tool is
\* spawned, and every higher version is accepted.
C22_Original ==
    VersionChecked =>
        IF VersionAtLeast(tfVersion, MinimumVersion)
        THEN wresult # "binary check failed"
        ELSE /\ wresult = "binary check failed"
             /\ wpc = "returned"
             /\ wlog = <<>>
             /\ toolErr = NotRun

\* The part of C22 that holds: a rejection is fatal and comes before any
\* hook and before the tool, whatever the version.
C22_RejectionIsFatal ==
    wresult = "binary check failed" =>
        wpc = "returned" /\ wlog = <<>> /\ toolErr = NotRun

\* C23: the pre-record handed to every post hook is the first non-null record
\* returned by the pre hooks in registration order; a non-null record
\* returned by a later pre hook does not replace it.
C23_Original ==
    [][ /\ preBackup # 0 => preBackup' = preBackup
        /\ \A h \in HookIds :
              postCalls'[h] # postCalls[h] => postArg'[h] = preBackup ]_vars

\* The part of C23 that holds: every post hook is handed the record the pre
\* loop ended with, which is that of the last pre hook that returned one.
C23_PostGetsLast ==
    [][ /\ \A h \in HookIds :
              postCalls'[h] # postCalls[h] => postArg'[h] = preBackup
        /\ preBackup' # preBackup => preBackup' = hookIdx /\ wpc = "pre" ]_vars

\* Running the external tool failed.
ToolFailed == toolErr.kind \in {"exit", "signal", "start"}

\* C29: whenever running the external tool fails for any reason (non-zero
\* exit, termination by a signal, failure to start the process, cancelled
\* context), the wrapper never terminates the host process with exit status 0
\* and never returns success, and no post hook runs.
C29_Original ==
    ToolFailed =>
        /\ hostExit # <<0>>
        /\ wresult # "ok"
        /\ \A h \in HookIds : postCalls[h] = 0

\* The part of C29 that holds: after a failure no post hook runs and the
\* wrapper does not return success; the exit status is non-zero when the
\* tool exited or was ended by a signal.
C29_NoPostNoSuccess ==
    ToolFailed =>
        /\ wresult # "ok"
        /\ \A h \in HookIds : postCalls[h] = 0
        /\ toolErr.kind # "start" => hostExit # <<0>>

(***************************************************************************)
(* utils.AtomicWrite: properties                                           *)
(***************************************************************************)

TargetNow == ContentOf(awDir, awInodes, TargetName)

\* The last call returned nil.
AwSucceeded == awCalls > 0 /\ awpc = "idle" /\ awResult = Nil

\* C12: a read of the target that runs while AtomicWrite(path, data) does
\* returns the complete old bytes or the complete new bytes, never a partial
\* or mixed state; and when the write fails, or the process ends at a step
\* before the rename, the target still holds the old bytes.
C12_AtomicWrite ==
    /\ rdLast # NoRead => rdLast.bytes \in rdLast.during
    /\ (awCalls > 0 /\ ~AwSucceeded) => TargetNow = awOld
    /\ AwSucceeded => TargetNow = File(awData)

\* A read that began on the old two bytes, ran across the rename of a
\* second call with different bytes and returned the old ones.
C12_Witness ==
    /\ awCalls = 2
    /\ AwSucceeded
    /\ awOld = File(<<1, 1>>)
    /\ awData = <<2, 2>>
    /\ rdLast = [bytes |-> File(<<1, 1>>), during |-> {File(<<1, 1>>), File(<<2, 2>>)}]

\* The second call failed in the middle of its write and the first call's
\* bytes are still there.
C12_WitnessFailed ==
    /\ awCalls = 2
    /\ awResult = <<"write error">>
    /\ awInodes[2] = <<2>>
    /\ TargetNow = File(<<1, 1>>)

(***************************************************************************)
(* The remote backend: properties                                          *)
(***************************************************************************)

IsCall(e, api) == e.ev = "call" /\ e.api = api

\* The positions of the log that hold a call of the given kind.
Calls(api) == { i \in 1..Len(rlog) : IsCall(rlog[i], api) }

\* Two log entries are attempts of the same call.
SameCall(e, g) == e.ev = "call" /\ g.ev = "call" /\ e.api = g.api /\ e.item = g.item

\* The calls the backend makes in a retry loop.
InRetryLoop(e) ==
    /\ e.api \in {"PutObject", "GetObject", "ListObjectsV2", "DeleteObject", "HeadObject"}
    /\ e.item = <<0>>

Finished == rpc = "idle" /\ rresult.status \in {"ok", "error"}

C17_Original ==
    /\ \A i \in 1..Len(rlog) :
          (rlog[i].ev = "call" /\ rlog[i].cancelled) =>
              rlog[i].api = "AbortMultipartUpload"
    /\ (Finished /\ rctx /\ mpu.status # "none" /\ Calls("CompleteMultipartUpload") = {}) =>
          mpu.status = "aborted"

\* The operation ended on a call that failed under a live context and that
\* a later attempt, within the three, would have seen answered.
FailedOnTransient ==
    \E i \in 1..Len(rlog) :
        /\ rlog[i].ev = "call"
        /\ ~rlog[i].ok
        /\ ~rlog[i].cancelled
        /\ rlog[i].would > rlog[i].attempt
        /\ rlog[i].would <= S3MaxRetries
        /\ \A j \in (i + 1)..Len(rlog) : ~SameCall(rlog[j], rlog[i])

\* C18: every remote call is wrapped in the retry loop: a call that fails on
\* its first attempt and would succeed on a later one, within 3 attempts,
\* does not fail the operation.
C18_Original ==
    (Finished /\ rresult.status = "error") => ~FailedOnTransient

\* C19: in a multipart upload, when a part upload fails an abort for that
\* upload id is issued before store returns, no complete call is issued for
\* the upload, and store returns an error.
C19_AbortOnPartFailure ==
    \A i \in Calls("UploadPart") :
        ~rlog[i].ok =>
            /\ i + 1 = Len(rlog)
            /\ IsCall(rlog[i + 1], "AbortMultipartUpload")
            /\ rlog[i + 1].item = <<mpu.id>>
            /\ Calls("CompleteMultipartUpload") = {}
            /\ Finished
            /\ rresult.status = "error"

\* The second part of an upload failed after the first had gone through, and
\* the abort reached the remote end.
C19_Witness ==
    /\ Finished
    /\ ~rctx
    /\ Len(rlog) = 4
    /\ IsCall(rlog[2], "UploadPart") /\ rlog[2].ok
    /\ IsCall(rlog[3], "UploadPart") /\ ~rlog[3].ok
    /\ IsCall(rlog[4], "AbortMultipartUpload")
    /\ mpu.status = "aborted"
    /\ rresult.msg = "failed to upload part"

\* The parts a payload of len bytes is split into.
NumParts(len) == (len + S3MultipartThreshold - 1) \div S3MultipartThreshold

\* The i-th chunk of a payload of len bytes.
Chunk(i, len) ==
    Slice((i - 1) * S3MultipartThreshold, PartEnd((i - 1) * S3MultipartThreshold, len))

\* C20: a multipart upload of a payload split into n parts is completed with
\* exactly n part identifiers, the i-th carrying part number i and the ETag
\* returned for the i-th chunk, so that the assembled object equals the
\* payload.
C20_Original ==
    sent # <<>> =>
        /\ Len(sent) = NumParts(rop.len)
        /\ \A i \in 1..Len(sent) :
              /\ sent[i].PartNumber = i
              /\ sent[i].ETag = ETagOf(Chunk(i, rop.len))
        /\ mpu.status = "completed" =>
              mpu.object = [ i \in 1..NumParts(rop.len) |-> Chunk(i, rop.len) ]

(***************************************************************************)
(* Restore across the tiers: properties                                    *)
(***************************************************************************)

\* The snapshot is in the tier with the bytes its checksum was taken of.
IntactLocal(f, k) == LocalRetrieve(f, k).err = Nil

IntactRemote(b, k) == b[k] # Absent /\ S3Retrieve(b, k, 1).err = Nil

\* The payloads of the tiers that hold the snapshot intact and can be asked.
IntactPayloads(f, b, k, remoteAnswers) ==
    (IF IntactLocal(f, k) THEN {File(LocalRetrieve(f, k).data)} ELSE {})
    \cup (IF remoteEnabled /\ remoteAnswers /\ IntactRemote(b, k)
          THEN {File(S3Retrieve(b, k, 1).data)} ELSE {})

\* C14: restore(id) is rejected at validation only when the snapshot is
\* absent or corrupted in every enabled tier; when it is intact in at least
\* one tier, only in the remote one for example, restore retrieves the bytes
\* from a tier whose validation succeeded and writes them to the target.
C14_Original ==
    [][ (RestoreStep /\ IntactPayloads(fs, bucket, last'.id, last'.remoteAnswers) # {}) =>
            /\ ~Contains(last'.err, "backup validation failed")
            /\ (~last'.createBackup /\ ~last'.writeFailed) =>
                  /\ last'.err = Nil
                  /\ fs'.artifact \in
                        IntactPayloads(fs, bucket, last'.id, last'.remoteAnswers) ]_vars

\* The same for a snapshot the local tier holds intact.
C14_LocalIntact ==
    [][ (RestoreStep /\ IntactLocal(fs, last'.id)) =>
            /\ ~Contains(last'.err, "backup validation failed")
            /\ (~last'.createBackup /\ ~last'.writeFailed) =>
                  /\ last'.err = Nil
                  /\ fs'.artifact = File(LocalRetrieve(fs, last'.id).data) ]_vars

(***************************************************************************)
(* Retention, run twice: properties                                        *)
(***************************************************************************)

\* C15: retention is idempotent: once the deletion set computed for a tier
\* has been deleted, retention run again on the surviving snapshots, under
\* the same configuration and the same clock reading, returns an empty
\* deletion set.
C15_Idempotent ==
    rphase = "again" => toDelete = <<>>

\* The first run deleted a snapshot and left more snapshots than the floor,
\* so that the second run went through the count and the age policy.
C15_Witness ==
    /\ rphase = "again"
    /\ Len(firstDeleted) >= 1
    /\ Len(backups) > MinimumRetentionCount
    /\ retentionCount > MinimumRetentionCount
    /\ maxAgeDays > 0
    /\ toDelete = <<>>

(***************************************************************************)
(* Encryption: properties                                                  *)
(***************************************************************************)

\* The tiers a successful snapshot() step wrote: the local one, and the
\* remote one when it is enabled and its store succeeded.
TiersWritten ==
    {"local"} \cup (IF remoteEnabled /\ last'.remoteErr = Nil THEN {"remote"} ELSE {})

\* The payloads those tiers hold under the new identifier after the step.
StoredPayloads ==
    { BytesOf(StoredIn(fs', bucket', tier, last'.id)) : tier \in TiersWritten }

\* C16: whenever the configured cryptographic provider is not the no-op
\* provider, a successful snapshot() stores in every tier it writes the
\* provider's wrapping of the artifact bytes, never the plaintext, and returns
\* a record whose encryption flag is true; with the no-op provider the flag
\* is false.
C16_Original ==
    [][ (SnapshotStep /\ last'.err = Nil) =>
            IF CreateFromConfig(encryptionProvider) # "NoOp"
            THEN /\ last'.metadata.Encrypted
                 /\ \A stored \in StoredPayloads :
                       /\ stored \in Encrypt(CreateFromConfig(encryptionProvider),
                                              BytesOf(fs.artifact))
                       /\ stored # BytesOf(fs.artifact)
            ELSE ~last'.metadata.Encrypted ]_vars

\* The part of C16 that holds: under the no-op provider the record's flag is
\* false and the tiers hold the artifact's bytes.
C16_NoOp ==
    [][ (SnapshotStep /\ last'.err = Nil
         /\ CreateFromConfig(encryptionProvider) = "NoOp") =>
            /\ ~last'.metadata.Encrypted
            /\ StoredPayloads = { BytesOf(fs.artifact) } ]_vars

(***************************************************************************)
(* Validation across tiers: properties                                     *)
(***************************************************************************)

\* The last operation was a validate(id) whose local attempt failed while
\* the enabled remote tier, answering, holds the payload as it was stored.
LocalFailedRemoteIntact ==
    /\ last.op = "validate"
    /\ remoteEnabled
    /\ last.localErr # Nil
    /\ last.answered
    /\ bucket[last.id] # Absent
    /\ File(bucket[last.id][1].data) = written.remote[last.id]

\* C21: validate(id) succeeds whenever the snapshot is intact in at least one
\* enabled tier: if the local attempt fails and the remote tier holds the
\* payload exactly as it was stored, the remote attempt is made and passes
\* the length comparison and the fingerprint comparison.
C21_Original ==
    LocalFailedRemoteIntact =>
        /\ last.remoteTried
        /\ last.remoteErr = Nil
        /\ last.err = Nil

\* The part of C21 that holds: the remote attempt is made, and it passes the
\* fingerprint comparison; it passes the length comparison only for a
\* payload of no bytes, the size not being read back from the object.
C21_RemoteAttempted ==
    LocalFailedRemoteIntact =>
        /\ last.remoteTried
        /\ ~Contains(last.remoteErr, "corrupted in remote storage: checksum mismatch")
        /\ (last.remoteErr = Nil) = (bucket[last.id][1].data = <<>>)

\* The last Decrypt was made on an instance constructed from the passphrase
\* of the instance that made the last Encrypt.
OpenedUnderSamePassphrase ==
    /\ aesOpened # NoneOpened
    /\ aesProviders[aesOpened.by].passphrase = aesProviders[aesSealed.by].passphrase

\* C30: bytes wrapped by a passphrase-based provider can be unwrapped by any
\* other provider instance constructed later from the same passphrase,
\* yielding the original bytes.
C30_Original ==
    OpenedUnderSamePassphrase =>
        /\ aesOpened.err = Nil
        /\ aesOpened.data = aesSealed.data

\* The part of C30 that holds: the instance that wrapped the bytes, or one
\* that drew the same salt, unwraps them; any other instance fails.
C30_SameKey ==
    aesOpened # NoneOpened =>
        IF aesProviders[aesOpened.by].key = aesProviders[aesSealed.by].key
        THEN aesOpened.err = Nil /\ aesOpened.data = aesSealed.data
        ELSE aesOpened.err # Nil

====
